---- MODULE Spec2Model ----
(***************************************************************************)
(* Telnet client of the WattBox integration                               *)
(* (custom_components/wattbox/pywattbox_api_v2_4/client.py): the         *)
(* connection and login handshake, the command channel (_send_command)    *)
(* and the outlet control facade (set_outlet), run by concurrent threads  *)
(* against a device that answers late, wrongly or not at all.              *)
(* Python str values are TLA+ strings; TLC evaluates Len, SubSeq and \o   *)
(* on them, so prefixes, splits and formatting are computed on the text.  *)
(***************************************************************************)
EXTENDS Integers, Sequences, FiniteSets, TLC

(***************************************************************************)
(* Bounds of the model.                                                    *)
(***************************************************************************)
\* Top-level calls started by all threads together in one behaviour.
MaxOps == 3
\* Outlets of the simulated device (the value it reports for ?OutletCount).
DeviceOutlets == 2

Threads == {"t1", "t2"}

(***************************************************************************)
(* Python str methods, computed on the characters.                        *)
(***************************************************************************)
CharAt(s, i) == SubSeq(s, i, i)

Whitespace == {" ", "\n", "\r", "\t"}

StartsWith(s, p) == Len(s) >= Len(p) /\ SubSeq(s, 1, Len(p)) = p

EndsWith(s, p) == Len(s) >= Len(p) /\ SubSeq(s, Len(s) - Len(p) + 1, Len(s)) = p

\* sub in s
Contains(s, sub) ==
    \E i \in 1..(Len(s) - Len(sub) + 1) : SubSeq(s, i, i + Len(sub) - 1) = sub

\* s.lstrip()
RECURSIVE lstrip(_)
lstrip(s) ==
    IF s # "" /\ CharAt(s, 1) \in Whitespace THEN lstrip(SubSeq(s, 2, Len(s))) ELSE s

\* s.rstrip()
RECURSIVE rstrip(_)
rstrip(s) ==
    IF s # "" /\ CharAt(s, Len(s)) \in Whitespace THEN rstrip(SubSeq(s, 1, Len(s) - 1))
    ELSE s

\* s.strip()
Strip(s) == lstrip(rstrip(s))

\* The positions of the separator character c in s.
SepPositions(s, c) == {i \in 1..Len(s) : CharAt(s, i) = c}

\* len(s.split(c))
SplitLen(s, c) == Cardinality(SepPositions(s, c)) + 1

\* s.split(c)[k], k counted from 0, for k < len(s.split(c))
SplitAt(s, c, k) ==
    LET seps  == SepPositions(s, c)
        below(i) == Cardinality({j \in seps : j < i})
        start == IF k = 0 THEN 1
                 ELSE (CHOOSE i \in seps : below(i) = k - 1) + 1
        stop  == IF k = Cardinality(seps) THEN Len(s)
                 ELSE (CHOOSE i \in seps : below(i) = k) - 1
    IN  SubSeq(s, start, stop)

UpperCase == "ABCDEFGHIJKLMNOPQRSTUVWXYZ"
LowerCase == "abcdefghijklmnopqrstuvwxyz"

\* The lower-case letter of each upper-case letter.
LowerOf ==
    [c \in {CharAt(UpperCase, i) : i \in 1..26} |->
        CharAt(LowerCase, CHOOSE i \in 1..26 : CharAt(UpperCase, i) = c)]

LowerChar(c) == IF c \in DOMAIN LowerOf THEN LowerOf[c] ELSE c

\* s.lower()
RECURSIVE Lower(_)
Lower(s) ==
    IF s = "" THEN "" ELSE LowerChar(CharAt(s, 1)) \o Lower(SubSeq(s, 2, Len(s)))

Digits == "0123456789"

IsDigit(c) == \E i \in 1..10 : CharAt(Digits, i) = c

DigitValue(c) == (CHOOSE i \in 1..10 : CharAt(Digits, i) = c) - 1

\* Whether int(s) succeeds: optional sign, then decimal digits (int() strips
\* surrounding whitespace itself).
IntParses(s) ==
    LET b == Strip(s)
        d == IF b # "" /\ CharAt(b, 1) \in {"-", "+"} THEN SubSeq(b, 2, Len(b)) ELSE b
    IN  d # "" /\ \A i \in 1..Len(d) : IsDigit(CharAt(d, i))

RECURSIVE NatOf(_)
NatOf(d) ==
    IF d = "" THEN 0
    ELSE 10 * NatOf(SubSeq(d, 1, Len(d) - 1)) + DigitValue(CharAt(d, Len(d)))

\* int(s), for IntParses(s)
IntOf(s) ==
    LET b == Strip(s)
    IN  IF CharAt(b, 1) = "-" THEN 0 - NatOf(SubSeq(b, 2, Len(b)))
        ELSE IF CharAt(b, 1) = "+" THEN NatOf(SubSeq(b, 2, Len(b)))
        ELSE NatOf(b)

\* Whether float(s) succeeds, for decimal notation: optional sign, digits with
\* at most one point, at least one digit (float() strips whitespace itself).
FloatParses(s) ==
    LET b == Strip(s)
        d == IF b # "" /\ CharAt(b, 1) \in {"-", "+"} THEN SubSeq(b, 2, Len(b)) ELSE b
        points == {i \in 1..Len(d) : CharAt(d, i) = "."}
    IN  /\ Cardinality(points) <= 1
        /\ \E i \in 1..Len(d) : IsDigit(CharAt(d, i))
        /\ \A i \in 1..Len(d) : i \in points \/ IsDigit(CharAt(d, i))

\* float(s) in hundredths, for FloatParses(s) with at most two decimals
Hundredths(s) ==
    LET b == Strip(s)
        neg == CharAt(b, 1) = "-"
        d == IF CharAt(b, 1) \in {"-", "+"} THEN SubSeq(b, 2, Len(b)) ELSE b
        whole == SplitAt(d, ".", 0)
        frac == IF Contains(d, ".") THEN SplitAt(d, ".", 1) ELSE ""
        cents == SubSeq(frac \o "00", 1, 2)
        n == 100 * NatOf(whole) + NatOf(cents)
    IN  IF neg THEN 0 - n ELSE n

\* re.findall(r'\{([^}]*)\}', s): the texts between a "{" and the next "}"
RECURSIVE BraceGroups(_)
BraceGroups(s) ==
    LET opens == {i \in 1..Len(s) : CharAt(s, i) = "{"}
    IN  IF opens = {} THEN <<>>
        ELSE LET i == CHOOSE x \in opens : \A y \in opens : x <= y
                 closes == {j \in (i + 1)..Len(s) : CharAt(s, j) = "}"}
             IN  IF closes = {} THEN <<>>
                 ELSE LET j == CHOOSE x \in closes : \A y \in closes : x <= y
                      IN  <<SubSeq(s, i + 1, j - 1)>> \o BraceGroups(SubSeq(s, j + 1, Len(s)))

\* s.split(c), as a sequence
Split(s, c) == [k \in 1..SplitLen(s, c) |-> SplitAt(s, c, k - 1)]

\* s.replace(sub, ""), for a non-empty sub
RECURSIVE Remove(_, _)
Remove(s, sub) ==
    IF Len(s) < Len(sub) THEN s
    ELSE IF StartsWith(s, sub) THEN Remove(SubSeq(s, Len(sub) + 1, Len(s)), sub)
    ELSE SubSeq(s, 1, 1) \o Remove(SubSeq(s, 2, Len(s)), sub)

\* s.isdigit()
isdigit(s) == s # "" /\ \A i \in 1..Len(s) : IsDigit(CharAt(s, i))

\* re.search(r'-(\d+)$', text): the digits of a hyphen-led group that ends the
\* text, as <<n>>, or <<>> when there is no match.
TrailingGroup(text) ==
    LET n == Len(text)
        starts == {i \in 2..n : /\ CharAt(text, i - 1) = "-"
                                /\ \A j \in i..n : IsDigit(CharAt(text, j))}
    IN  IF starts = {} THEN <<>>
        ELSE <<NatOf(SubSeq(text, CHOOSE i \in starts : \A j \in starts : i <= j, n))>>

\* Mutant: the first run of digits instead of the last.
FirstNumber(text) ==
    LET digits == {i \in 1..Len(text) : IsDigit(CharAt(text, i))}
    IN  IF digits = {} THEN <<>>
        ELSE LET lo == CHOOSE i \in digits : \A j \in digits : i <= j
                 hi == CHOOSE i \in digits :
                           /\ \A j \in lo..i : j \in digits
                           /\ i + 1 \notin digits
             IN  <<NatOf(SubSeq(text, lo, hi))>>

\* re.findall(r'\d+', text)[-1]: the last run of digits, as <<n>>, or <<>>.
LastNumber(text) ==
    LET digits == {i \in 1..Len(text) : IsDigit(CharAt(text, i))}
    IN  IF digits = {} THEN <<>>
        ELSE LET hi == CHOOSE i \in digits : \A j \in digits : j <= i
                 lo == CHOOSE i \in digits :
                           /\ \A j \in i..hi : j \in digits
                           /\ i - 1 \notin digits
             IN  <<NatOf(SubSeq(text, lo, hi))>>

(***************************************************************************)
(* utils.py and endpoints.py                                               *)
(***************************************************************************)
\* Mutant: the upper limit is one too high.
validate_outlet_number_loose(outlet, max_outlets) == 1 <= outlet /\ outlet <= max_outlets + 1

validate_outlet_number(outlet, max_outlets) == 1 <= outlet /\ outlet <= max_outlets

is_success_response(response) == Strip(response) = "OK"

\* Mutant: looks for ERROR instead of #Error.
is_error_response_plain(response) == StartsWith(Strip(response), "ERROR")

is_error_response(response) == StartsWith(Strip(response), "#Error")

format_command(command) == IF EndsWith(command, "\n") THEN command ELSE command \o "\n"

FIRMWARE == "?Firmware"
HOSTNAME == "?Hostname"
SERVICE_TAG == "?ServiceTag"
MODEL == "?Model"
OUTLET_COUNT == "?OutletCount"
OUTLET_STATUS == "?OutletStatus"
OUTLET_NAMES == "?OutletName"
POWER_STATUS == "?PowerStatus"
AUTO_REBOOT == "?AutoReboot"
UPS_STATUS == "?UPSStatus"
UPS_CONNECTION == "?UPSConnection"
REBOOT == "!Reboot"
EXIT == "!Exit"

\* Mutant: the index is left out of the command.
outlet_set_no_index(outlet, action, delay) == "!OutletSet=" \o action

outlet_power_status(outlet) == "?OutletPowerStatus=" \o ToString(outlet)

\* delay = -1 stands for None
outlet_set(outlet, action, delay) ==
    IF delay # -1
    THEN "!OutletSet=" \o ToString(outlet) \o "," \o action \o "," \o ToString(delay)
    ELSE "!OutletSet=" \o ToString(outlet) \o "," \o action

(***************************************************************************)
(* The environment: what the device and the socket can do.                 *)
(***************************************************************************)
\* Text a device may have sent by the time a prompt wait or the post-login
\* read ends ("" when nothing arrived before the timeout).
DeviceTexts == {"", "Username: ", "Password: ", "Invalid credentials\r\n", "Welcome\r\n"}

\* Outcome of one sendall on a connected socket.
SendOutcomes == {"ok", "OSError", "timeout"}

\* Value lists the device may give for a query name.
RECURSIVE StatusList(_)
StatusList(n) == IF n <= 1 THEN "1" ELSE StatusList(n - 1) \o ",0"

RECURSIVE NameList(_)
NameList(n) ==
    IF n <= 1 THEN "{Port 1}" ELSE NameList(n - 1) \o ",{Port " \o ToString(n) \o "}"

\* The power fields a healthy device reports for outlet i, in hundredths.
ReportedPower(i) ==
    [power_watts |-> <<100 * i + 50>>, current_amps |-> <<2>>, voltage_volts |-> <<12000>>]

\* The values a healthy device gives for a query; `arg` is what follows the
\* "=" of the command ("" when the command has none).
PrimaryValue(name, arg) ==
    IF name = OUTLET_COUNT THEN ToString(DeviceOutlets)
    ELSE IF name = OUTLET_STATUS THEN StatusList(DeviceOutlets)
    ELSE IF name = OUTLET_NAMES THEN NameList(DeviceOutlets)
    ELSE IF name = MODEL THEN "WattBox"
    ELSE IF name = "?OutletPowerStatus" THEN arg \o "," \o arg \o ".50,0.02,120.00"
    ELSE IF name = POWER_STATUS THEN "60.00,600.00,110.00,1"
    ELSE IF name = UPS_CONNECTION THEN "1"
    ELSE IF name = UPS_STATUS THEN "50,0,Good,False,25,True,False"
    ELSE IF name = AUTO_REBOOT THEN "1"
    ELSE "1.0"

\* Other values a device may give: another model, malformed or short lists.
OtherValues(name, arg) ==
    IF name = OUTLET_COUNT THEN {"", "1a"}
    ELSE IF name = OUTLET_STATUS THEN {"1,x"}
    ELSE IF name = OUTLET_NAMES THEN {"{Port 1}"}
    ELSE IF name = MODEL THEN {"WB-250-IPW-" \o ToString(DeviceOutlets),
                               "WB-250-" \o ToString(DeviceOutlets) \o "X"}
    ELSE IF name = "?OutletPowerStatus" THEN {arg \o ",x,0.02,120.00", arg}
    ELSE IF name = POWER_STATUS THEN {"60.00,600.00"}
    ELSE IF name = UPS_CONNECTION THEN {"0", "x"}
    ELSE IF name = UPS_STATUS THEN {"50,0,Good", "x,0,Good,False,25,True,False"}
    ELSE IF name = AUTO_REBOOT THEN {"0", "x"}
    ELSE {}

QueryValues(name, arg) == {PrimaryValue(name, arg)} \cup OtherValues(name, arg)

\* The argument of a command: what follows its "=".
CommandArg(c) == IF Contains(c, "=") THEN SplitAt(c, "=", 1) ELSE ""

\* The line a healthy device answers to a received command.
PrimaryAnswer(command) ==
    LET c == Strip(command)
    IN  IF StartsWith(c, "?")
        THEN SplitAt(c, "=", 0) \o "=" \o PrimaryValue(SplitAt(c, "=", 0), CommandArg(c)) \o "\n"
        ELSE "OK\n"

\* Lines the device may answer to a received command (wire format: a query is
\* echoed as ?Name=values, a control command gets OK, either may get #Error).
DeviceAnswers(command) ==
    LET c == Strip(command)
    IN  IF StartsWith(c, "?")
        THEN {SplitAt(c, "=", 0) \o "=" \o v \o "\n" :
                 v \in QueryValues(SplitAt(c, "=", 0), CommandArg(c))}
             \cup {"#Error\n"}
        ELSE {"OK\n", "#Error\n"}

(***************************************************************************)
(* State                                                                   *)
(***************************************************************************)
VARIABLES
    connection,     \* self._connection: "None" or "socket"
    authenticated,  \* self._authenticated
    command_lock,   \* owner of self._command_lock: "free" or a thread
    outlet_count,   \* self._outlet_count: <<>> for None, <<n>> for n
    device_info,    \* self._device_info: <<>> for None, <<snapshot>> otherwise
    tcp,            \* the socket in self._connection: "none", "new", "up", "closed",
                    \* "reset" (the device ended the connection)
    handshake,      \* whether _authenticate completed on the socket in self._connection
    rx,             \* lines waiting in the socket's receive buffer, oldest first
    devQ,           \* the device's answers to received commands, not sent yet
    th,             \* the threads: call, position, locals, outcome
    nops,           \* top-level calls started so far
    outlet_switch   \* one WattBoxOutletSwitch: time.time() now, and its
                    \* _last_operation_time

vars == <<connection, authenticated, command_lock, outlet_count, device_info, tcp,
          handshake, rx, devQ, th, nops, outlet_switch>>

client == <<connection, authenticated, outlet_count, device_info>>
socket == <<tcp, handshake, rx, devQ>>

Unread == "<unread>"

NoOutcome == [kind |-> "none", exc |-> "", msg |-> "", flag |-> FALSE]
Returns(msg, flag) == [kind |-> "return", exc |-> "", msg |-> msg, flag |-> flag]
Raises(exc, msg) == [kind |-> "raise", exc |-> exc, msg |-> msg, flag |-> FALSE]

\* firmware_val, hostname_val, service_tag_val, model_val before they are set
NoInfo == [firmware |-> "", hostname |-> "", service_tag |-> "", model |-> ""]

Idle ==
    [op |-> "idle", pc |-> "idle",
     \* _send_command: command, response_str, attempt, continuation, outcome
     cmd |-> "", resp |-> "", attempt |-> 0, ret |-> "", sc |-> NoOutcome,
     \* the thread for whose command the device produced the line in
     \* response_str, and whether lines 305-309 were reached with it
     respFor |-> "", sel |-> FALSE,
     \* whether the command was written
     wrote |-> FALSE,
     \* whether the first _read_until_newline ended by timeout
     timedOut |-> FALSE,
     \* commands written by this call, and the handshake state at each write
     writes |-> <<>>, bare |-> FALSE,
     \* set_outlet arguments and the count get_outlet_count returned
     outlet |-> 0, action |-> "", delay |-> -1, count |-> <<>>,
     \* _authenticate: text seen by each read, and what it raised
     loginBuf |-> Unread, passBuf |-> Unread, postBuf |-> Unread,
     tcpFailed |-> FALSE, authExc |-> "",
     \* how the facade call made last ended, and the list get_outlet_status returned
     sub |-> NoOutcome, statuses |-> <<>>,
     \* get_all_outlets_info: include_power_data, outlet_names, power_data, the
     \* list returned; whether the names query failed and the outlets whose
     \* power query did not go as with a healthy device
     include |-> FALSE, names |-> <<>>, power_data |-> <<>>, outlets |-> <<>>,
     namesFailed |-> FALSE, failed |-> {},
     \* get_device_info: refresh, self._device_info when the call began,
     \* power_status, ups_connected, ups_status, and the value returned
     refresh |-> FALSE, cached |-> <<>>, power_status |-> <<>>, ups_connected |-> FALSE,
     ups_status |-> <<>>, snapshot |-> <<>>,
     \* self._device_info as it was when the call before this one, a
     \* get_device_info(refresh=True) that raised, began
     kept |-> <<>>,
     \* where the coordinator's update cycle is, and how the cycle ended
     cycle |-> "idle", update |-> NoOutcome,
     \* the connect() calls of the current update cycle
     connects |-> 0,
     \* coordinator.data, the outlet indices that have a switch entity once
     \* the platform is set up, the outlets the master switch has yet to turn on
     data |-> <<>>, entities |-> <<>>, pending |-> <<>>,
     \* the _read_until_newline calls of the current _send_command that have
     \* returned, and what the last of them returned
     reads |-> 0, last |-> "",
     \* len(drained_data) of the _clear_input_buffer call in progress
     drained |-> 0,
     \* the comma-separated fields of a line handed to a parser
     fields |-> <<>>,
     \* what get_outlet_power_status returned
     power |-> <<>>,
     \* get_system_info: the parsed values, and where outlet_count_val came from
     info |-> NoInfo, source |-> "",
     \* commands of this call that did not go as they do with a healthy device
     faults |-> 0,
     \* outcome of the call, and self._authenticated when it ended
     result |-> NoOutcome, authAfter |-> FALSE]

\* time.time() when the integration starts, in seconds from an origin more
\* than a cooldown period before it.
StartTime == 10

\* WattBoxOutletSwitch.__init__ (switch.py line 71)
NewSwitch == [time |-> StartTime, last_operation_time |-> 0]

Init ==
    /\ connection = "None"
    /\ authenticated = FALSE
    /\ command_lock = "free"
    /\ outlet_count = <<>>
    /\ device_info = <<>>
    /\ tcp = "none"
    /\ handshake = FALSE
    /\ rx = <<>>
    /\ devQ = <<>>
    /\ th = [t \in Threads |-> Idle]
    /\ nops = 0
    /\ outlet_switch = NewSwitch

At(t, op, pc) == th[t].op = op /\ th[t].pc = pc

\* A call ends: its outcome is recorded with the flag as it is then.
Finish(t, outcome, auth) ==
    [th EXCEPT ![t].pc = "done", ![t].result = outcome, ![t].authAfter = auth]

Begin(t) ==
    /\ th[t].op = "idle"
    /\ nops < MaxOps
    /\ nops' = nops + 1
    /\ UNCHANGED outlet_switch

\* The call has returned to its caller; the thread is free for the next call.
Return(t) ==
    /\ th[t].pc = "done"
    /\ th[t].cycle # "validate"
    /\ th' = [th EXCEPT ![t] = [Idle EXCEPT
                !.faults = th[t].faults,
                !.kept = IF th[t].op = "get_device_info" /\ th[t].refresh
                            /\ th[t].result.kind = "raise"
                         THEN th[t].cached ELSE <<>>]]
    /\ UNCHANGED <<client, command_lock, socket, nops, outlet_switch>>

(***************************************************************************)
(* connect, _authenticate, _cleanup_connection                             *)
(***************************************************************************)
login_prompts == {"login:", "username:", "user:"}
password_prompts == {"password:", "pass:"}
rejection_markers == {"login:", "username:", "invalid", "incorrect"}

\* _wait_for_prompts: whether a prompt of the list is in the lowered buffer
PromptFound(buffer, prompts) ==
    LET lowered == Lower(buffer)
    IN  \E p \in prompts : Contains(lowered, Lower(p))

\* Mutant: the response is not lowered before the markers are looked for.
LoginRejectedCaseSensitive(response) ==
    \E p \in rejection_markers : Contains(response, p)

\* _authenticate line 184
LoginRejected(response) ==
    LET lowered == Lower(response)
    IN  \E p \in rejection_markers : Contains(lowered, p)

\* connect lines 118-121: a new socket object replaces self._connection
ConnectSocket(t) ==
    /\ Begin(t)
    /\ connection' = "socket"
    /\ tcp' = "new"
    /\ handshake' = FALSE
    /\ rx' = <<>>
    /\ devQ' = <<>>
    /\ th' = [th EXCEPT ![t].op = "connect", ![t].pc = "cn_connect"]
    /\ UNCHANGED <<authenticated, outlet_count, device_info, command_lock>>

\* Mutant: connect's except clauses raise without _cleanup_connection.
ConnectFailsNoCleanup(t, msg, marks) ==
    /\ th' = [th EXCEPT ![t] = [marks EXCEPT
                !.pc = "done",
                !.result = Raises("WattBoxConnectionError", msg),
                !.authAfter = authenticated]]
    /\ UNCHANGED <<client, command_lock, socket, nops, outlet_switch>>

\* connect's except clauses: _cleanup_connection, then WattBoxConnectionError
\* whatever was raised.
ConnectFails(t, msg, marks) ==
    /\ IF connection # "None"
       THEN /\ connection' = "None"
            /\ authenticated' = FALSE
            /\ tcp' = "closed"
            /\ handshake' = FALSE
            /\ rx' = <<>>
            /\ devQ' = <<>>
       ELSE UNCHANGED <<connection, authenticated, tcp, handshake, rx, devQ>>
    /\ th' = [th EXCEPT ![t] = [marks EXCEPT
                !.pc = "done",
                !.result = Raises("WattBoxConnectionError", msg),
                !.authAfter = IF connection # "None" THEN FALSE ELSE authenticated]]
    /\ UNCHANGED <<outlet_count, device_info, command_lock, nops, outlet_switch>>

\* connect line 122: socket.connect succeeds or raises socket.error
ConnectTcp(t) ==
    /\ At(t, "connect", "cn_connect")
    /\ \/ /\ tcp = "new"
          /\ tcp' = "up"
          /\ th' = [th EXCEPT ![t].pc = "au_login"]
          /\ UNCHANGED <<client, command_lock, handshake, rx, devQ, nops, outlet_switch>>
       \/ ConnectFails(t, "Failed to connect", [th[t] EXCEPT !.tcpFailed = TRUE])

\* _send_raw: what sendall can do on the socket as it is
SendRawOutcomes ==
    IF connection = "None" THEN {"NotConnected"}
    ELSE IF tcp = "up" THEN SendOutcomes
    ELSE IF tcp = "reset" THEN {"ok", "OSError"}
    ELSE {"OSError"}

\* What a read loop (recv with a short timeout, until the deadline) collects.
ReadableTexts == IF tcp = "up" THEN DeviceTexts ELSE {""}

\* _authenticate's except clauses, for a failed _send_raw
AuthSendExc(o) ==
    IF o = "timeout" THEN "WattBoxTimeoutError" ELSE "WattBoxAuthenticationError"

\* _authenticate lines 161-166: the connection check, then _wait_for_login_prompt
AuthLoginPrompt(t) ==
    /\ At(t, "connect", "au_login")
    /\ IF connection = "None"
       THEN ConnectFails(t, "Unexpected connection error: Not connected",
                         [th[t] EXCEPT !.authExc = "WattBoxConnectionError"])
       ELSE \E text \in ReadableTexts :
              IF PromptFound(text, login_prompts)
              THEN /\ th' = [th EXCEPT ![t].loginBuf = text, ![t].pc = "au_user"]
                   /\ UNCHANGED <<client, command_lock, socket, nops, outlet_switch>>
              ELSE ConnectFails(t, "Unexpected connection error: Timeout waiting for prompts",
                                [th[t] EXCEPT !.loginBuf = text,
                                              !.authExc = "WattBoxTimeoutError"])

\* _authenticate lines 170 and 177: _send_raw of the username, of the password
AuthSend(t, from, to) ==
    /\ At(t, "connect", from)
    /\ \E o \in SendRawOutcomes :
         IF o = "ok"
         THEN /\ th' = [th EXCEPT ![t].pc = to]
              /\ UNCHANGED <<client, command_lock, socket, nops, outlet_switch>>
         ELSE ConnectFails(t, "Unexpected connection error: Authentication failed",
                           [th[t] EXCEPT !.authExc = AuthSendExc(o)])

\* Mutant: the username is sent without waiting for the login prompt.
AuthSendUsernameUnprompted(t) == AuthSend(t, "au_login", "au_password")

AuthSendUsername(t) == AuthSend(t, "au_user", "au_password")

AuthSendPassword(t) == AuthSend(t, "au_pass", "au_check")

\* _authenticate line 173: _wait_for_password_prompt
AuthPasswordPrompt(t) ==
    /\ At(t, "connect", "au_password")
    /\ IF connection = "None"
       THEN ConnectFails(t, "Unexpected connection error: Authentication failed",
                         [th[t] EXCEPT !.authExc = "WattBoxAuthenticationError"])
       ELSE \E text \in ReadableTexts :
              IF PromptFound(text, password_prompts)
              THEN /\ th' = [th EXCEPT ![t].passBuf = text, ![t].pc = "au_pass"]
                   /\ UNCHANGED <<client, command_lock, socket, nops, outlet_switch>>
              ELSE ConnectFails(t, "Unexpected connection error: Timeout waiting for prompts",
                                [th[t] EXCEPT !.passBuf = text,
                                              !.authExc = "WattBoxTimeoutError"])

\* _authenticate lines 180-188: read what the device said after the password
AuthCheckLogin(t) ==
    /\ At(t, "connect", "au_check")
    /\ IF connection = "None"
       THEN ConnectFails(t, "Unexpected connection error: Authentication failed",
                         [th[t] EXCEPT !.authExc = "WattBoxAuthenticationError"])
       ELSE \E text \in ReadableTexts :
              IF LoginRejected(text)
              THEN ConnectFails(t, "Unexpected connection error: Invalid credentials",
                                [th[t] EXCEPT !.postBuf = text,
                                              !.authExc = "WattBoxAuthenticationError"])
              ELSE /\ authenticated' = TRUE
                   /\ handshake' = (tcp = "up")
                   /\ th' = [th EXCEPT ![t] = [th[t] EXCEPT
                                !.postBuf = text, !.pc = "done",
                                !.result = Returns("", FALSE), !.authAfter = TRUE]]
                   /\ UNCHANGED <<connection, outlet_count, device_info, command_lock,
                                  tcp, rx, devQ, nops, outlet_switch>>

(***************************************************************************)
(* _send_command                                                           *)
(***************************************************************************)
\* Additional reads of a query whose first line does not carry its prefix.
CrossTalkReads == 3

\* A caller enters _send_command(command); `ret` is where it continues.
Call(t, command, ret) ==
    [th[t] EXCEPT !.pc = "sc_check", !.cmd = command, !.ret = ret, !.resp = "",
                  !.attempt = 0, !.sc = NoOutcome, !.respFor = "", !.sel = FALSE,
                  !.wrote = FALSE, !.timedOut = FALSE, !.reads = 0, !.last = ""]

\* _send_command leaves by `outcome`; the thread is back in its caller.
Leave(t, outcome) == [th EXCEPT ![t].pc = th[t].ret, ![t].sc = outcome]

\* Mutant: every command is taken for a query.
is_query_command_always(formatted_command) == TRUE

is_query_command(formatted_command) == StartsWith(Strip(formatted_command), "?")

expected_prefix(formatted_command) ==
    IF Contains(formatted_command, "=")
    THEN SplitAt(Strip(formatted_command), "=", 0)
    ELSE Strip(formatted_command)

\* Mutant: the selected response is returned whatever it is.
ClassifyLenient(response_str) == Returns(response_str, FALSE)

\* lines 305-309: the error check on the selected response
Classify(response_str) ==
    IF is_error_response(response_str)
    THEN Raises("WattBoxCommandError", "Command failed: " \o response_str)
    ELSE Returns(response_str, FALSE)

\* Mutant: the with block does not wait for the lock.
CanAcquireUnlocked(t) == TRUE

\* with self._command_lock: whether thread t gets the RLock now
CanAcquire(t) == command_lock = "free" \/ command_lock = t

\* line 257
SendCheck(t) ==
    /\ th[t].pc = "sc_check"
    /\ IF connection = "None" \/ ~authenticated
       THEN th' = Leave(t, Raises("WattBoxConnectionError", "Not connected or authenticated"))
       ELSE th' = [th EXCEPT ![t].pc = "sc_lock"]
    /\ UNCHANGED <<client, command_lock, socket, nops, outlet_switch>>

\* line 264
SendAcquire(t) ==
    /\ th[t].pc = "sc_lock"
    /\ CanAcquire(t)
    /\ command_lock' = t
    /\ th' = [th EXCEPT ![t].pc = "sc_drain"]
    /\ UNCHANGED <<client, socket, nops, outlet_switch>>

\* line 269: _clear_input_buffer discards what is buffered
SendDrain(t) ==
    /\ th[t].pc = "sc_drain"
    /\ rx' = IF connection = "None" THEN rx ELSE <<>>
    /\ th' = [th EXCEPT ![t].pc = "sc_send"]
    /\ UNCHANGED <<client, command_lock, tcp, handshake, devQ, nops, outlet_switch>>

\* line 272: _send_raw(formatted_command)
SendWrite(t) ==
    /\ th[t].pc = "sc_send"
    /\ \E o \in SendRawOutcomes :
         IF o = "ok"
         THEN /\ \E line \in DeviceAnswers(format_command(th[t].cmd)) :
                   devQ' = IF handshake
                           THEN Append(devQ, [text |-> line, for |-> t])
                           ELSE devQ
              /\ th' = [th EXCEPT ![t].pc = "sc_read", ![t].wrote = TRUE,
                                  ![t].writes = Append(@, format_command(th[t].cmd)),
                                  ![t].bare = @ \/ ~handshake]
              /\ UNCHANGED <<client, command_lock, tcp, handshake, rx, nops, outlet_switch>>
         ELSE /\ th' = Leave(t, IF o = "timeout"
                                THEN Raises("WattBoxTimeoutError", "Command timeout: " \o th[t].cmd)
                                ELSE Raises("WattBoxCommandError", "Command failed: " \o o))
              /\ command_lock' = "free"
              /\ UNCHANGED <<client, socket, nops, outlet_switch>>

\* What one _read_until_newline can return and what it leaves buffered: the
\* oldest buffered line, stripped, or "" when none arrives before the deadline.
ReadLine ==
    IF rx # <<>>
    THEN [text |-> Strip(Head(rx).text), for |-> Head(rx).for, rest |-> Tail(rx),
          timeout |-> FALSE]
    ELSE [text |-> "", for |-> "", rest |-> rx, timeout |-> TRUE]

\* The with block is left by `outcome`: the lock is released.
Release(t, outcome, rest) ==
    /\ th' = Leave(t, outcome)
    /\ command_lock' = "free"
    /\ rx' = rest
    /\ UNCHANGED devQ

\* Mutant: the response is returned with the lock still held.
SelectKeepsLock(t, response, answers, rest, timeout, read) ==
    /\ th' = [Leave(t, Classify(response)) EXCEPT
                 ![t].resp = response, ![t].respFor = answers, ![t].sel = TRUE,
                 ![t].timedOut = @ \/ timeout, ![t].reads = @ + 1, ![t].last = read]
    /\ rx' = rest
    /\ UNCHANGED <<command_lock, devQ>>

\* lines 305-309 with `response` in response_str, then the with block is left;
\* `read` is what the read before returned
Select(t, response, answers, rest, timeout, read) ==
    /\ th' = [Leave(t, Classify(response)) EXCEPT
                 ![t].resp = response, ![t].respFor = answers, ![t].sel = TRUE,
                 ![t].timedOut = @ \/ timeout, ![t].reads = @ + 1, ![t].last = read]
    /\ command_lock' = "free"
    /\ rx' = rest
    /\ UNCHANGED devQ

\* lines 278-309: the first read, then the check of the response
SendRead(t) ==
    /\ th[t].pc = "sc_read"
    /\ UNCHANGED <<client, tcp, handshake, nops, outlet_switch>>
    /\ IF connection = "None"
       THEN Release(t, Raises("WattBoxCommandError", "Command failed: Not connected"), rx)
       ELSE LET r == ReadLine
                f == format_command(th[t].cmd)
            IN  IF is_query_command(f) /\ ~StartsWith(r.text, expected_prefix(f))
                THEN /\ th' = [th EXCEPT ![t].pc = "sc_extra", ![t].resp = r.text,
                                         ![t].respFor = r.for, ![t].timedOut = r.timeout,
                                         ![t].reads = @ + 1, ![t].last = r.text]
                     /\ rx' = r.rest
                     /\ UNCHANGED <<command_lock, devQ>>
                ELSE Select(t, r.text, r.for, r.rest, r.timeout, r.text)

\* lines 292-299: one additional read of a query looking for its prefix
SendReadMore(t) ==
    /\ th[t].pc = "sc_extra"
    /\ UNCHANGED <<client, tcp, handshake, nops, outlet_switch>>
    /\ IF connection = "None"
       THEN Release(t, Raises("WattBoxCommandError", "Command failed: Not connected"), rx)
       ELSE LET r == ReadLine
                f == format_command(th[t].cmd)
            IN  IF StartsWith(r.text, expected_prefix(f))
                THEN Select(t, r.text, r.for, r.rest, FALSE, r.text)
                ELSE IF r.text = "" \/ th[t].attempt + 1 >= CrossTalkReads
                THEN Select(t, th[t].resp, th[t].respFor, r.rest, FALSE, r.text)
                ELSE /\ th' = [th EXCEPT ![t].attempt = @ + 1, ![t].reads = @ + 1,
                                         ![t].last = r.text]
                     /\ rx' = r.rest
                     /\ UNCHANGED <<command_lock, devQ>>

\* The answer to the oldest unanswered command arrives, whenever the device
\* gets to it.
DeviceRespond ==
    /\ devQ # <<>>
    /\ tcp = "up"
    /\ rx' = Append(rx, Head(devQ))
    /\ devQ' = Tail(devQ)
    /\ UNCHANGED <<client, command_lock, tcp, handshake, th, nops, outlet_switch>>

(***************************************************************************)
(* Public calls                                                            *)
(***************************************************************************)
\* endpoints.py: outlet_power_status(1)
OUTLET_POWER_STATUS_1 == "?OutletPowerStatus=" \o ToString(1)

\* Commands callers pass to _send_command (get_firmware_version line 759,
\* get_outlet_power_status line 518, reboot_device line 726)
Commands == {FIRMWARE, OUTLET_POWER_STATUS_1, REBOOT}

\* Arguments callers pass to set_outlet.
OutletArgs == 0..(DeviceOutlets + 1)
ActionArgs == {"ON", "OFF", "TOGGLE", "RESET", "on"}
DelayArgs == {-1, 5}

VALID_OUTLET_ACTIONS == {"ON", "OFF", "TOGGLE", "RESET"}

\* Fallback of _determine_outlet_count_by_testing
DefaultOutletCount == 8

\* _determine_outlet_count_by_testing lines 446-457: the number of values in
\* the ?OutletStatus response `outcome`, as <<n>>, or <<>> when there is none.
TestedCount(outcome) ==
    IF outcome.kind = "return" /\ outcome.msg # "" /\ Contains(outcome.msg, "=")
    THEN <<SplitLen(SplitAt(outcome.msg, "=", 1), ",")>>
    ELSE <<>>

\* Where the caller of get_outlet_count goes on (lines 589, 513, 532).
AfterCount(t) ==
    IF th[t].op = "set_outlet" THEN "so_validate"
    ELSE IF th[t].op = "get_outlet_power_status" THEN "ps_validate"
    ELSE "ao_count"

\* A thread calls _send_command with one of these commands.
CommandBegin(t) ==
    /\ Begin(t)
    /\ \E c \in Commands :
         th' = [th EXCEPT ![t] = [Call(t, c, "sc_top") EXCEPT !.op = "send_command"]]
    /\ UNCHANGED <<client, command_lock, socket>>

\* _send_command is back in its caller with its outcome.
CommandReturns(t) ==
    /\ At(t, "send_command", "sc_top")
    /\ th' = Finish(t, th[t].sc, authenticated)
    /\ UNCHANGED <<client, command_lock, socket, nops, outlet_switch>>

\* set_outlet line 588 and get_outlet_count lines 466-470
SetOutletBegin(t) ==
    /\ Begin(t)
    /\ \E o \in OutletArgs, a \in ActionArgs, d \in DelayArgs :
         LET me == [th[t] EXCEPT !.op = "set_outlet", !.outlet = o, !.action = a, !.delay = d]
         IN  th' = [th EXCEPT ![t] =
                      IF outlet_count # <<>>
                      THEN [me EXCEPT !.pc = "so_validate", !.count = outlet_count]
                      ELSE [Call(t, OUTLET_COUNT, "goc_parse") EXCEPT
                               !.op = "set_outlet", !.outlet = o, !.action = a, !.delay = d]]
    /\ UNCHANGED <<client, command_lock, socket>>

\* get_outlet_count lines 472-482: parse the ?OutletCount response
GetOutletCountParse(t) ==
    /\ th[t].pc = "goc_parse"
    /\ UNCHANGED <<connection, authenticated, device_info, command_lock, socket, nops, outlet_switch>>
    /\ IF th[t].sc.kind = "raise"
       THEN /\ th' = Finish(t, th[t].sc, authenticated)
            /\ UNCHANGED outlet_count
       ELSE LET response == th[t].sc.msg
                count_str == Strip(SplitAt(SplitAt(response, "=", 1), ",", 0))
            IN  IF ~Contains(response, "=")
                THEN /\ outlet_count' = <<0>>
                     /\ th' = [th EXCEPT ![t].pc = AfterCount(t), ![t].count = <<0>>]
                ELSE IF IntParses(count_str)
                THEN /\ outlet_count' = <<IntOf(count_str)>>
                     /\ th' = [th EXCEPT ![t].pc = AfterCount(t),
                                         ![t].count = <<IntOf(count_str)>>]
                ELSE /\ th' = [th EXCEPT ![t] = Call(t, OUTLET_STATUS, "goc_test")]
                     /\ UNCHANGED outlet_count

\* _determine_outlet_count_by_testing lines 446-460, then lines 483-484
GetOutletCountTesting(t) ==
    /\ th[t].pc = "goc_test"
    /\ LET count == IF TestedCount(th[t].sc) # <<>> THEN TestedCount(th[t].sc)[1]
                    ELSE DefaultOutletCount
       IN  /\ outlet_count' = <<count>>
           /\ th' = [th EXCEPT ![t].pc = AfterCount(t), ![t].count = <<count>>]
    /\ UNCHANGED <<connection, authenticated, device_info, command_lock, socket, nops, outlet_switch>>

\* set_outlet lines 589-599
SetOutletValidate(t) ==
    /\ At(t, "set_outlet", "so_validate")
    /\ LET me == th[t]
       IN  IF me.outlet # 0 /\ ~validate_outlet_number(me.outlet, me.count[1])
           THEN th' = Finish(t, Raises("ValueError", "Invalid outlet number: "
                                        \o ToString(me.outlet)), authenticated)
           ELSE IF me.action \notin VALID_OUTLET_ACTIONS
           THEN th' = Finish(t, Raises("ValueError", "Invalid action: " \o me.action),
                             authenticated)
           ELSE th' = [th EXCEPT ![t] =
                         Call(t, outlet_set(me.outlet, me.action, me.delay), "so_result")]
    /\ UNCHANGED <<client, command_lock, socket, nops, outlet_switch>>

\* set_outlet line 600
SetOutletReturns(t) ==
    /\ At(t, "set_outlet", "so_result")
    /\ th' = Finish(t, IF th[t].sc.kind = "raise" THEN th[t].sc
                       ELSE Returns(th[t].sc.msg, is_success_response(th[t].sc.msg)),
                    authenticated)
    /\ UNCHANGED <<client, command_lock, socket, nops, outlet_switch>>

\* disconnect lines 140-146
DisconnectBegin(t) ==
    /\ Begin(t)
    /\ th' = [th EXCEPT ![t] =
                IF connection = "None"
                THEN [th[t] EXCEPT !.op = "disconnect", !.pc = "done",
                                   !.result = Returns("", FALSE), !.authAfter = authenticated]
                ELSE IF authenticated
                THEN [Call(t, EXIT, "dc_close") EXCEPT !.op = "disconnect"]
                ELSE [th[t] EXCEPT !.op = "disconnect", !.pc = "dc_close"]]
    /\ UNCHANGED <<client, command_lock, socket>>

\* Mutant: the login flag survives the close.
DisconnectCloseKeepsLogin(t) ==
    /\ At(t, "disconnect", "dc_close")
    /\ connection' = "None"
    /\ tcp' = "closed"
    /\ handshake' = FALSE
    /\ rx' = <<>>
    /\ devQ' = <<>>
    /\ th' = Finish(t, Returns("", FALSE), authenticated)
    /\ UNCHANGED <<authenticated, outlet_count, device_info, command_lock, nops, outlet_switch>>

\* disconnect lines 148-155
DisconnectClose(t) ==
    /\ At(t, "disconnect", "dc_close")
    /\ connection' = "None"
    /\ authenticated' = FALSE
    /\ tcp' = "closed"
    /\ handshake' = FALSE
    /\ rx' = <<>>
    /\ devQ' = <<>>
    /\ th' = Finish(t, Returns("", FALSE), FALSE)
    /\ UNCHANGED <<outlet_count, device_info, command_lock, nops, outlet_switch>>

(***************************************************************************)
(* _send_command as one step, for a client used by one thread and a device *)
(* that answers a command before the read's deadline or not at all, so     *)
(* that no line is left buffered for a later command.                      *)
(***************************************************************************)
\* Commands of the get_all_outlets_info calls, and of the get_device_info
\* calls, that may go unlike they do with a healthy device.
CallFaults == 2
SnapshotFaults == 1

\* The calls that send a command per outlet.
LongCalls == {"get_all_outlets_info", "get_device_info"}

\* The faults left to the call thread t is in.
FaultsLeft(t) ==
    IF th[t].op = "get_all_outlets_info" THEN th[t].faults < CallFaults
    ELSE IF th[t].op = "get_device_info" THEN th[t].faults < SnapshotFaults
    ELSE TRUE

\* What _read_until_newline hands to lines 278-309 for `command`: one of the
\* device's answers, stripped, or "" when the read timed out.
AnswerLines(command) ==
    {Strip(a) : a \in DeviceAnswers(format_command(command))} \cup {""}

\* The ways one _send_command of thread t can go (lines 257-316).
CommandResults(t) ==
    IF connection = "None" \/ ~authenticated
    THEN {[outcome |-> Raises("WattBoxConnectionError", "Not connected or authenticated"),
           line |-> "", wrote |-> FALSE, sel |-> FALSE]}
    ELSE {[outcome |-> IF o = "timeout"
                       THEN Raises("WattBoxTimeoutError", "Command timeout: " \o th[t].cmd)
                       ELSE Raises("WattBoxCommandError", "Command failed: " \o o),
           line |-> "", wrote |-> FALSE, sel |-> FALSE] : o \in SendRawOutcomes \ {"ok"}}
         \cup
         {[outcome |-> Classify(l), line |-> l, wrote |-> TRUE, sel |-> TRUE] :
             l \in IF "ok" \notin SendRawOutcomes THEN {}
                   ELSE IF tcp = "reset" THEN {""}
                   ELSE AnswerLines(th[t].cmd)}

\* The command went as it does with a healthy device.
Healthy(t, r) == r.sel /\ r.line = Strip(PrimaryAnswer(format_command(th[t].cmd)))

\* _send_command lines 246-316, start to end
SendCommand(t) ==
    /\ th[t].pc = "sc_check"
    /\ \E r \in CommandResults(t) :
         /\ tcp = "reset" \/ FaultsLeft(t) \/ Healthy(t, r)
         /\ th' = [Leave(t, r.outcome) EXCEPT
                      ![t].resp = r.line, ![t].sel = r.sel, ![t].wrote = r.wrote,
                      ![t].respFor = IF r.line # "" THEN t ELSE "",
                      ![t].timedOut = r.sel /\ r.line = "",
                      ![t].writes = IF r.wrote THEN Append(@, format_command(th[t].cmd))
                                    ELSE @,
                      ![t].faults = IF tcp = "reset" \/ Healthy(t, r)
                                       \/ th[t].op \notin LongCalls
                                    THEN @
                                    ELSE @ + 1]
    /\ UNCHANGED <<client, command_lock, socket, nops, outlet_switch>>

(***************************************************************************)
(* get_system_info                                                         *)
(***************************************************************************)
\* response.split("=")[1] if "=" in response else response
ValueOf(response) == IF Contains(response, "=") THEN SplitAt(response, "=", 1) ELSE response

\* _extract_outlet_count_from_model lines 426-436, for one text
NumberIn(text) ==
    IF text = "" THEN <<>>
    ELSE IF TrailingGroup(text) # <<>> THEN TrailingGroup(text)
    ELSE LastNumber(text)

\* An exception nothing catches ends the call.
RaiseOut(t) ==
    /\ th' = Finish(t, th[t].sc, authenticated)
    /\ UNCHANGED <<client, command_lock, socket, nops, outlet_switch>>

\* get_system_info line 381
GetSystemInfoBegin(t) ==
    /\ Begin(t)
    /\ th' = [th EXCEPT ![t] = [Call(t, FIRMWARE, "si_firmware") EXCEPT
                                   !.op = "get_system_info"]]
    /\ UNCHANGED <<client, command_lock, socket>>

\* get_system_info lines 382-391: one response is kept, the next query is sent
SystemInfoQuery(t, at, value, command, to) ==
    /\ th[t].pc = at
    /\ IF th[t].sc.kind = "raise"
       THEN RaiseOut(t)
       ELSE /\ th' = [th EXCEPT ![t] = [Call(t, command, to) EXCEPT !.info = value]]
            /\ UNCHANGED <<client, command_lock, socket, nops, outlet_switch>>

SystemInfoFirmware(t) ==
    SystemInfoQuery(t, "si_firmware", [th[t].info EXCEPT !.firmware = ValueOf(th[t].sc.msg)],
                    HOSTNAME, "si_hostname")

SystemInfoHostname(t) ==
    SystemInfoQuery(t, "si_hostname", [th[t].info EXCEPT !.hostname = ValueOf(th[t].sc.msg)],
                    SERVICE_TAG, "si_tag")

SystemInfoServiceTag(t) ==
    SystemInfoQuery(t, "si_tag", [th[t].info EXCEPT !.service_tag = ValueOf(th[t].sc.msg)],
                    MODEL, "si_model")

SystemInfoModel(t) ==
    SystemInfoQuery(t, "si_model", [th[t].info EXCEPT !.model = ValueOf(th[t].sc.msg)],
                    OUTLET_COUNT, "si_count")

\* get_system_info lines 406-417: the count is cached and the SystemInfo
\* returned; get_device_info goes on with get_all_outlets_info (line 339),
\* whose get_outlet_count finds the cached count
SystemInfoReturns(t, count, source) ==
    /\ outlet_count' = <<count>>
    /\ th' = [th EXCEPT ![t] = [th[t] EXCEPT
                 !.count = <<count>>, !.source = source,
                 !.pc = IF th[t].op = "get_system_info" THEN "done" ELSE "ao_count",
                 !.result = IF th[t].op = "get_system_info" THEN Returns("", FALSE) ELSE @,
                 !.authAfter = authenticated]]
    /\ UNCHANGED <<connection, authenticated, device_info, command_lock, socket, nops, outlet_switch>>

\* get_system_info lines 394-404 and _extract_outlet_count_from_model 425-439
SystemInfoCount(t) ==
    /\ th[t].pc = "si_count"
    /\ IF th[t].sc.kind = "raise"
       THEN RaiseOut(t)
       ELSE LET response == th[t].sc.msg
                count_str == Strip(SplitAt(SplitAt(response, "=", 1), ",", 0))
            IN  IF ~Contains(response, "=")
                THEN SystemInfoReturns(t, 0, "no value")
                ELSE IF IntParses(count_str)
                THEN SystemInfoReturns(t, IntOf(count_str), "response")
                ELSE IF NumberIn(response) # <<>>
                THEN SystemInfoReturns(t, NumberIn(response)[1], "response text")
                ELSE IF NumberIn(th[t].info.model) # <<>>
                THEN SystemInfoReturns(t, NumberIn(th[t].info.model)[1], "model")
                ELSE /\ th' = [th EXCEPT ![t] = Call(t, OUTLET_STATUS, "si_test")]
                     /\ UNCHANGED <<client, command_lock, socket, nops, outlet_switch>>

\* _determine_outlet_count_by_testing lines 446-460, called from line 439
SystemInfoTesting(t) ==
    /\ th[t].pc = "si_test"
    /\ IF TestedCount(th[t].sc) # <<>>
       THEN SystemInfoReturns(t, TestedCount(th[t].sc)[1], "status")
       ELSE SystemInfoReturns(t, DefaultOutletCount, "default")

(***************************************************************************)
(* models.py: response parsing                                             *)
(***************************************************************************)
\* parse_outlet_status_response raises ValueError (line 111)
StatusInvalid(response) == ~StartsWith(response, OUTLET_STATUS \o "=")

\* parse_outlet_status_response lines 114-116
parse_outlet_status_response(response) ==
    LET status_values == Split(Strip(Remove(response, OUTLET_STATUS \o "=")), ",")
        digits == SelectSeq(status_values, isdigit)
    IN  [i \in 1..Len(digits) |-> NatOf(digits[i]) # 0]

\* parse_outlet_names_response raises ValueError (line 122)
NamesInvalid(response) == ~StartsWith(response, OUTLET_NAMES \o "=")

\* parse_outlet_names_response lines 125-131
parse_outlet_names_response(response) ==
    BraceGroups(Strip(Remove(response, OUTLET_NAMES \o "=")))

\* parse_outlet_power_response raises ValueError (lines 137-156)
PowerInvalid(response) ==
    LET values == Split(Strip(Remove(response, "?OutletPowerStatus=")), ",")
    IN  \/ ~StartsWith(response, "?OutletPowerStatus=")
        \/ Len(values) # 4
        \/ ~IntParses(values[1])
        \/ \E i \in 2..4 : ~FloatParses(values[i])

\* Mutant: the current is read where the power is.
parse_outlet_power_swapped(response) ==
    LET values == Split(Strip(Remove(response, "?OutletPowerStatus=")), ",")
    IN  [index |-> IntOf(values[1]), name |-> "Outlet " \o values[1], status |-> TRUE,
         power_watts |-> <<Hundredths(values[3])>>,
         current_amps |-> <<Hundredths(values[3])>>,
         voltage_volts |-> <<Hundredths(values[4])>>]

\* parse_outlet_power_response lines 140-154; floats in hundredths
parse_outlet_power_response(response) ==
    LET values == Split(Strip(Remove(response, "?OutletPowerStatus=")), ",")
    IN  [index |-> IntOf(values[1]), name |-> "Outlet " \o values[1], status |-> TRUE,
         power_watts |-> <<Hundredths(values[2])>>,
         current_amps |-> <<Hundredths(values[3])>>,
         voltage_volts |-> <<Hundredths(values[4])>>]

\* parse_power_status_response raises ValueError (lines 164-192)
PowerStatusInvalid(response) ==
    LET r == Strip(response)
        prefixed == StartsWith(r, POWER_STATUS \o "=")
        raw == Contains(r, ",") /\ ~StartsWith(r, "?")
        power_part == IF prefixed THEN Remove(r, POWER_STATUS \o "=") ELSE r
        values == Split(Strip(power_part), ",")
    IN  \/ ~prefixed /\ ~raw
        \/ Len(values) # 4
        \/ \E i \in 1..3 : ~FloatParses(values[i])
        \/ ~IntParses(values[4])

\* Mutant: the power is read where the current is.
parse_power_status_swapped(response) ==
    LET r == Strip(response)
        power_part == IF StartsWith(r, POWER_STATUS \o "=")
                      THEN Remove(r, POWER_STATUS \o "=") ELSE r
        values == Split(Strip(power_part), ",")
    IN  [current_amps |-> Hundredths(values[2]), power_watts |-> Hundredths(values[1]),
         voltage_volts |-> Hundredths(values[3]), safe_voltage_status |-> IntOf(values[4]) # 0]

\* parse_power_status_response lines 164-190; floats in hundredths
parse_power_status_response(response) ==
    LET r == Strip(response)
        power_part == IF StartsWith(r, POWER_STATUS \o "=")
                      THEN Remove(r, POWER_STATUS \o "=") ELSE r
        values == Split(Strip(power_part), ",")
    IN  [current_amps |-> Hundredths(values[1]), power_watts |-> Hundredths(values[2]),
         voltage_volts |-> Hundredths(values[3]), safe_voltage_status |-> IntOf(values[4]) # 0]

\* parse_ups_status_response raises ValueError (lines 198-215)
UpsStatusInvalid(response) ==
    LET values == Split(Strip(Remove(response, UPS_STATUS \o "=")), ",")
    IN  \/ ~StartsWith(response, UPS_STATUS \o "=")
        \/ Len(values) # 7
        \/ \E i \in {1, 2, 5} : ~IntParses(values[i])

\* parse_ups_status_response lines 201-215
parse_ups_status_response(response) ==
    LET values == Split(Strip(Remove(response, UPS_STATUS \o "=")), ",")
    IN  [battery_charge |-> IntOf(values[1]), battery_load |-> IntOf(values[2]),
         battery_health |-> values[3], power_lost |-> Lower(values[4]) = "true",
         battery_runtime |-> IntOf(values[5]), alarm_enabled |-> Lower(values[6]) = "true",
         alarm_muted |-> Lower(values[7]) = "true"]

(***************************************************************************)
(* get_all_outlets_info, get_all_outlets_power_data, get_outlet_power_status *)
(***************************************************************************)
\* Mutant: the default names are numbered from 0.
DefaultNamesFromZero(count) ==
    [i \in 1..count |-> "Outlet " \o ToString(i - 1)]

\* get_all_outlets_info line 545: [f"Outlet {i+1}" for i in range(outlet_count)]
DefaultNames(count) ==
    [i \in 1..count |-> "Outlet " \o ToString(i)]

\* get_all_outlets_info lines 541-545: get_outlet_names raised
NamesFail(outcome) == outcome.kind = "raise" \/ NamesInvalid(outcome.msg)

\* get_all_outlets_info lines 553-582: the list of OutletInfo
BuildOutlets(count, statuses, names, include, power_data) ==
    [i \in 1..count |->
        LET outlet_power == IF include /\ i \in DOMAIN power_data THEN power_data[i] ELSE <<>>
        IN  [index |-> i,
             name |-> IF i <= Len(names) THEN names[i] ELSE "Outlet " \o ToString(i),
             status |-> IF i <= Len(statuses) THEN statuses[i] ELSE FALSE,
             power_watts |-> IF outlet_power # <<>> THEN outlet_power[1].power_watts ELSE <<>>,
             current_amps |-> IF outlet_power # <<>> THEN outlet_power[1].current_amps ELSE <<>>,
             voltage_volts |-> IF outlet_power # <<>> THEN outlet_power[1].voltage_volts
                               ELSE <<>>]]

\* get_all_outlets_info returns `outlets`: the call is over, or get_device_info
\* goes on at line 341.
AllOutletsEnds(t, me, outlets) ==
    /\ th' = [th EXCEPT ![t] = [me EXCEPT
                 !.outlets = outlets, !.sub = Returns("", FALSE),
                 !.pc = IF me.op = "get_all_outlets_info" THEN "done" ELSE "di_outlets",
                 !.result = IF me.op = "get_all_outlets_info" THEN Returns("", FALSE) ELSE @,
                 !.authAfter = authenticated]]
    /\ UNCHANGED <<client, command_lock, socket, nops, outlet_switch>>

\* get_all_outlets_info line 532
GetAllOutletsInfoBegin(t) ==
    /\ Begin(t)
    /\ \E include \in BOOLEAN :
         LET me == [th[t] EXCEPT !.op = "get_all_outlets_info", !.include = include]
         IN  th' = [th EXCEPT ![t] =
                      IF outlet_count # <<>>
                      THEN [me EXCEPT !.pc = "ao_count", !.count = outlet_count]
                      ELSE [Call(t, OUTLET_COUNT, "goc_parse") EXCEPT
                               !.op = "get_all_outlets_info", !.include = include]]
    /\ UNCHANGED <<client, command_lock, socket>>

\* get_all_outlets_info line 536 calls get_outlet_status (line 489)
AllOutletsStatus(t) ==
    /\ th[t].pc = "ao_count"
    /\ th' = [th EXCEPT ![t] = Call(t, OUTLET_STATUS, "os_first")]
    /\ UNCHANGED <<client, command_lock, socket, nops, outlet_switch>>

\* get_all_outlets_info lines 537-542: [] when the statuses are unavailable,
\* else get_outlet_names (line 507)
AllOutletsNames(t) ==
    /\ th[t].pc = "ao_status"
    /\ IF th[t].sub.kind = "raise"
       THEN AllOutletsEnds(t, th[t], <<>>)
       ELSE /\ th' = [th EXCEPT ![t] = Call(t, OUTLET_NAMES, "ao_names")]
            /\ UNCHANGED <<client, command_lock, socket, nops, outlet_switch>>

\* get_all_outlets_info lines 542-551: the names, then the power data when
\* asked for (get_all_outlets_power_data lines 651-659) and the list
AllOutletsPower(t) ==
    /\ th[t].pc = "ao_names"
    /\ LET fail == NamesFail(th[t].sc)
           me == [th[t] EXCEPT
                    !.namesFailed = fail,
                    !.names = IF fail THEN DefaultNames(th[t].count[1])
                              ELSE parse_outlet_names_response(th[t].sc.msg),
                    !.power_data = <<>>, !.failed = {}]
       IN  IF me.include /\ me.count[1] >= 1
           THEN /\ th' = [th EXCEPT ![t] = [me EXCEPT !.outlet = 1, !.pc = "ps_validate"]]
                /\ UNCHANGED <<client, command_lock, socket, nops, outlet_switch>>
           ELSE AllOutletsEnds(t, me, BuildOutlets(me.count[1], me.statuses, me.names,
                                                   me.include, <<>>))

\* get_outlet_power_status returns `value` or raises, as `outcome` says: the
\* call is over, or get_all_outlets_power_data stores the value (None when the
\* call raised, lines 659-669) and goes to the next outlet, and after the last
\* one get_all_outlets_info builds its list.
OutletPowerEnds(t, outcome, value) ==
    IF th[t].op = "get_outlet_power_status"
    THEN /\ th' = [th EXCEPT ![t] = [th[t] EXCEPT !.power = value, !.pc = "done",
                                        !.result = outcome, !.authAfter = authenticated]]
         /\ UNCHANGED <<client, command_lock, socket, nops, outlet_switch>>
    ELSE LET fine == th[t].sel /\ th[t].resp = Strip(PrimaryAnswer(format_command(th[t].cmd)))
             me == [th[t] EXCEPT
                      !.power_data = Append(@, IF outcome.kind = "raise" THEN <<>> ELSE value),
                      !.failed = IF fine THEN @ ELSE @ \cup {th[t].outlet}]
         IN  IF th[t].outlet < th[t].count[1]
             THEN /\ th' = [th EXCEPT ![t] = [me EXCEPT !.outlet = @ + 1,
                                                         !.pc = "ps_validate"]]
                  /\ UNCHANGED <<client, command_lock, socket, nops, outlet_switch>>
             ELSE AllOutletsEnds(t, me, BuildOutlets(me.count[1], me.statuses, me.names,
                                                     me.include, me.power_data))

\* get_outlet_power_status line 512
GetOutletPowerStatusBegin(t) ==
    /\ Begin(t)
    /\ \E o \in OutletArgs :
         LET me == [th[t] EXCEPT !.op = "get_outlet_power_status", !.outlet = o]
         IN  th' = [th EXCEPT ![t] =
                      IF outlet_count # <<>>
                      THEN [me EXCEPT !.pc = "ps_validate", !.count = outlet_count]
                      ELSE [Call(t, OUTLET_COUNT, "goc_parse") EXCEPT
                               !.op = "get_outlet_power_status", !.outlet = o]]
    /\ UNCHANGED <<client, command_lock, socket>>

\* get_outlet_power_status lines 513-518
OutletPowerValidate(t) ==
    /\ th[t].pc = "ps_validate"
    /\ IF ~validate_outlet_number(th[t].outlet, th[t].count[1])
       THEN OutletPowerEnds(t, Raises("ValueError", "Invalid outlet number: "
                                       \o ToString(th[t].outlet)), <<>>)
       ELSE /\ th' = [th EXCEPT ![t] = Call(t, outlet_power_status(th[t].outlet), "ps_result")]
            /\ UNCHANGED <<client, command_lock, socket, nops, outlet_switch>>

\* get_outlet_power_status lines 518-523
OutletPowerResult(t) ==
    /\ th[t].pc = "ps_result"
    /\ IF th[t].sc.kind = "raise"
       THEN OutletPowerEnds(t, th[t].sc, <<>>)
       ELSE IF PowerInvalid(th[t].sc.msg)
       THEN OutletPowerEnds(t, Returns("", FALSE), <<>>)
       ELSE OutletPowerEnds(t, Returns("", FALSE), <<parse_outlet_power_response(th[t].sc.msg)>>)

(***************************************************************************)
(* get_outlet_status                                                       *)
(***************************************************************************)
\* get_outlet_status ends by `outcome`, a list returned being `statuses`: the
\* call is over, or get_all_outlets_info goes on at line 537.
OutletStatusEnds(t, outcome, statuses) ==
    /\ th' = [th EXCEPT ![t] = [th[t] EXCEPT
                 !.sub = outcome, !.statuses = statuses,
                 !.pc = IF th[t].op = "get_outlet_status" THEN "done" ELSE "ao_status",
                 !.result = IF th[t].op = "get_outlet_status" THEN outcome ELSE @,
                 !.authAfter = authenticated]]
    /\ UNCHANGED <<client, command_lock, socket, nops, outlet_switch>>

\* get_outlet_status line 489
GetOutletStatusBegin(t) ==
    /\ Begin(t)
    /\ th' = [th EXCEPT ![t] = [Call(t, OUTLET_STATUS, "os_first") EXCEPT
                                   !.op = "get_outlet_status"]]
    /\ UNCHANGED <<client, command_lock, socket>>

\* get_outlet_status lines 489-496: the first response, and the resend
OutletStatusFirst(t) ==
    /\ th[t].pc = "os_first"
    /\ IF th[t].sc.kind = "raise"
       THEN OutletStatusEnds(t, th[t].sc, <<>>)
       ELSE IF ~StatusInvalid(th[t].sc.msg)
       THEN OutletStatusEnds(t, Returns("", FALSE), parse_outlet_status_response(th[t].sc.msg))
       ELSE /\ th' = [th EXCEPT ![t] = Call(t, OUTLET_STATUS, "os_retry")]
            /\ UNCHANGED <<client, command_lock, socket, nops, outlet_switch>>

\* get_outlet_status lines 496-503: the response to the resend
OutletStatusRetry(t) ==
    /\ th[t].pc = "os_retry"
    /\ IF th[t].sc.kind = "raise"
       THEN OutletStatusEnds(t, th[t].sc, <<>>)
       ELSE IF ~StatusInvalid(th[t].sc.msg)
       THEN OutletStatusEnds(t, Returns("", FALSE), parse_outlet_status_response(th[t].sc.msg))
       ELSE OutletStatusEnds(t, Returns("", FALSE), <<>>)

(***************************************************************************)
(* get_device_info                                                         *)
(***************************************************************************)
\* Mutant: a cached snapshot is served whatever refresh says.
ServesCacheAlways(refresh) == device_info # <<>>

\* get_device_info line 328: self._device_info and not refresh
ServesCache(refresh) == device_info # <<>> /\ ~refresh

\* get_ups_connection_status lines 688-694 and get_auto_reboot_status lines
\* 708-714: the flag in a response _send_command returned
FlagOf(response) ==
    LET status == IF Contains(response, "=") THEN SplitAt(response, "=", 1) ELSE "0"
        first == Strip(SplitAt(status, ",", 0))
    IN  IntParses(first) /\ IntOf(first) # 0

\* get_device_info lines 328-334
GetDeviceInfoBegin(t) ==
    /\ Begin(t)
    /\ \E refresh \in BOOLEAN, include \in BOOLEAN :
         LET me == [th[t] EXCEPT !.op = "get_device_info", !.refresh = refresh,
                                 !.include = include, !.cached = device_info]
         IN  th' = [th EXCEPT ![t] =
                      IF ServesCache(refresh)
                      THEN [me EXCEPT !.pc = "done", !.snapshot = device_info,
                                      !.result = Returns("", FALSE),
                                      !.authAfter = authenticated]
                      ELSE [Call(t, FIRMWARE, "si_firmware") EXCEPT
                               !.op = "get_device_info", !.refresh = refresh,
                               !.include = include, !.cached = device_info]]
    /\ UNCHANGED <<client, command_lock, socket>>

\* Mutant: the snapshot built so far is stored before get_power_status.
DeviceInfoPowerStoresPartial(t) ==
    /\ th[t].pc = "di_outlets"
    /\ th' = [th EXCEPT ![t] = Call(t, POWER_STATUS, "di_power")]
    /\ device_info' = <<[system_info |-> [firmware |-> th[t].info.firmware,
                                          hostname |-> th[t].info.hostname,
                                          service_tag |-> th[t].info.service_tag,
                                          model |-> th[t].info.model,
                                          outlet_count |-> th[t].count[1]],
                         outlets |-> th[t].outlets,
                         power_status |-> <<>>,
                         ups_status |-> <<>>,
                         ups_connected |-> FALSE,
                         auto_reboot_enabled |-> FALSE]>>
    /\ UNCHANGED <<connection, authenticated, outlet_count, command_lock, socket, nops, outlet_switch>>

\* get_device_info line 344 calls get_power_status (line 627)
DeviceInfoPower(t) ==
    /\ th[t].pc = "di_outlets"
    /\ th' = [th EXCEPT ![t] = Call(t, POWER_STATUS, "di_power")]
    /\ UNCHANGED <<client, command_lock, socket, nops, outlet_switch>>

\* get_power_status lines 627-632, then get_ups_connection_status (line 686)
DeviceInfoUpsConnection(t) ==
    /\ th[t].pc = "di_power"
    /\ IF th[t].sc.kind = "raise"
       THEN RaiseOut(t)
       ELSE /\ th' = [th EXCEPT ![t] = [Call(t, UPS_CONNECTION, "di_upsconn") EXCEPT
                         !.power_status =
                             IF PowerStatusInvalid(th[t].sc.msg) THEN <<>>
                             ELSE <<parse_power_status_response(th[t].sc.msg)>>]]
            /\ UNCHANGED <<client, command_lock, socket, nops, outlet_switch>>

\* get_ups_connection_status lines 686-694, then get_device_info lines
\* 352-355 (get_ups_status, line 698) or line 364 (get_auto_reboot_status)
DeviceInfoUps(t) ==
    /\ th[t].pc = "di_upsconn"
    /\ IF th[t].sc.kind = "raise"
       THEN RaiseOut(t)
       ELSE /\ th' = [th EXCEPT ![t] =
                       IF FlagOf(th[t].sc.msg)
                       THEN [Call(t, UPS_STATUS, "di_ups") EXCEPT
                                !.ups_connected = TRUE, !.ups_status = <<>>]
                       ELSE [Call(t, AUTO_REBOOT, "di_reboot") EXCEPT
                                !.ups_connected = FALSE, !.ups_status = <<>>]]
            /\ UNCHANGED <<client, command_lock, socket, nops, outlet_switch>>

\* get_ups_status lines 698-699 inside get_device_info lines 354-360, then
\* get_auto_reboot_status (line 706)
DeviceInfoAutoReboot(t) ==
    /\ th[t].pc = "di_ups"
    /\ IF th[t].sc.kind = "raise" /\ th[t].sc.exc # "WattBoxCommandError"
       THEN RaiseOut(t)
       ELSE IF th[t].sc.kind = "return" /\ UpsStatusInvalid(th[t].sc.msg)
       THEN /\ th' = Finish(t, Raises("ValueError", "Invalid UPS status response"),
                            authenticated)
            /\ UNCHANGED <<client, command_lock, socket, nops, outlet_switch>>
       ELSE /\ th' = [th EXCEPT ![t] = [Call(t, AUTO_REBOOT, "di_reboot") EXCEPT
                         !.ups_status =
                             IF th[t].sc.kind = "raise" THEN <<>>
                             ELSE <<parse_ups_status_response(th[t].sc.msg)>>]]
            /\ UNCHANGED <<client, command_lock, socket, nops, outlet_switch>>

\* get_auto_reboot_status lines 706-714, then get_device_info lines 367-377
DeviceInfoReturns(t) ==
    /\ th[t].pc = "di_reboot"
    /\ IF th[t].sc.kind = "raise"
       THEN RaiseOut(t)
       ELSE LET me == th[t]
                device == [system_info |-> [firmware |-> me.info.firmware,
                                            hostname |-> me.info.hostname,
                                            service_tag |-> me.info.service_tag,
                                            model |-> me.info.model,
                                            outlet_count |-> me.count[1]],
                           outlets |-> me.outlets,
                           power_status |-> me.power_status,
                           ups_status |-> me.ups_status,
                           ups_connected |-> me.ups_connected,
                           auto_reboot_enabled |-> FlagOf(me.sc.msg)]
            IN  /\ device_info' = <<device>>
                /\ th' = [th EXCEPT ![t] = [me EXCEPT
                             !.snapshot = <<device>>, !.pc = "done",
                             !.result = Returns("", FALSE), !.authAfter = authenticated]]
                /\ UNCHANGED <<connection, authenticated, outlet_count, command_lock,
                               socket, nops, outlet_switch>>

\* connect, as one thread runs it.
Connecting(t) ==
    \/ ConnectSocket(t)
    \/ ConnectTcp(t)
    \/ AuthLoginPrompt(t)
    \/ AuthSendUsername(t)
    \/ AuthPasswordPrompt(t)
    \/ AuthSendPassword(t)
    \/ AuthCheckLogin(t)

\* The session of the client, as one thread runs it.
Session(t) ==
    \/ Connecting(t)
    \/ DisconnectBegin(t)
    \/ DisconnectClose(t)

\* Direct calls of _send_command.
Wrapper(t) ==
    \/ CommandBegin(t)
    \/ CommandReturns(t)

\* The command channel.
Channel(t) ==
    \/ SendCheck(t)
    \/ SendAcquire(t)
    \/ SendDrain(t)
    \/ SendWrite(t)
    \/ SendRead(t)
    \/ SendReadMore(t)
    \/ Return(t)

\* The outlet control facade.
Facade(t) ==
    \/ SetOutletBegin(t)
    \/ GetOutletCountParse(t)
    \/ GetOutletCountTesting(t)
    \/ SetOutletValidate(t)
    \/ SetOutletReturns(t)

\* Concurrent callers of one client.
Next ==
    \/ \E t \in Threads : Session(t) \/ Wrapper(t) \/ Channel(t)
    \/ DeviceRespond

Spec == Init /\ [][Next]_vars

\* One caller using the facade.
NextFacade ==
    \/ Session("t1")
    \/ Facade("t1")
    \/ Channel("t1")
    \/ DeviceRespond

SpecFacade == Init /\ [][NextFacade]_vars

\* get_system_info
SystemInfo(t) ==
    \/ GetSystemInfoBegin(t)
    \/ SystemInfoFirmware(t)
    \/ SystemInfoHostname(t)
    \/ SystemInfoServiceTag(t)
    \/ SystemInfoModel(t)
    \/ SystemInfoCount(t)
    \/ SystemInfoTesting(t)

\* get_outlet_status
OutletStatus(t) ==
    \/ GetOutletStatusBegin(t)
    \/ OutletStatusFirst(t)
    \/ OutletStatusRetry(t)

\* get_outlet_count (uncached), get_outlet_power_status, get_all_outlets_info
AllOutlets(t) ==
    \/ GetOutletCountParse(t)
    \/ GetOutletCountTesting(t)
    \/ GetOutletPowerStatusBegin(t)
    \/ OutletPowerValidate(t)
    \/ OutletPowerResult(t)
    \/ GetAllOutletsInfoBegin(t)
    \/ AllOutletsStatus(t)
    \/ AllOutletsNames(t)
    \/ AllOutletsPower(t)

\* One caller reading the device.
NextDevice ==
    \/ Connecting("t1")
    \/ SystemInfo("t1")
    \/ OutletStatus("t1")
    \/ AllOutlets("t1")
    \/ SendCommand("t1")
    \/ Return("t1")

SpecDevice == Init /\ [][NextDevice]_vars

\* get_device_info with the calls it makes
DeviceInfo(t) ==
    \/ GetDeviceInfoBegin(t)
    \/ SystemInfoFirmware(t)
    \/ SystemInfoHostname(t)
    \/ SystemInfoServiceTag(t)
    \/ SystemInfoModel(t)
    \/ SystemInfoCount(t)
    \/ SystemInfoTesting(t)
    \/ AllOutletsStatus(t)
    \/ OutletStatusFirst(t)
    \/ OutletStatusRetry(t)
    \/ AllOutletsNames(t)
    \/ AllOutletsPower(t)
    \/ OutletPowerValidate(t)
    \/ OutletPowerResult(t)
    \/ DeviceInfoPower(t)
    \/ DeviceInfoUpsConnection(t)
    \/ DeviceInfoUps(t)
    \/ DeviceInfoAutoReboot(t)
    \/ DeviceInfoReturns(t)

\* One caller taking snapshots of the device.
NextSnapshot ==
    \/ Connecting("t1")
    \/ DeviceInfo("t1")
    \/ SendCommand("t1")
    \/ Return("t1")

SpecSnapshot == Init /\ [][NextSnapshot]_vars

\* The client after construction and a connect() that succeeded.
InitSession ==
    /\ connection = "socket"
    /\ authenticated = TRUE
    /\ command_lock = "free"
    /\ outlet_count = <<>>
    /\ device_info = <<>>
    /\ tcp = "up"
    /\ handshake = TRUE
    /\ rx = <<>>
    /\ devQ = <<>>
    /\ th = [t \in Threads |-> Idle]
    /\ nops = 0
    /\ outlet_switch = NewSwitch

\* get_device_info calls, one after the other, on a connected client.
NextRefresh ==
    \/ DeviceInfo("t1")
    \/ SendCommand("t1")
    \/ Return("t1")

SpecRefresh == InitSession /\ [][NextRefresh]_vars

(***************************************************************************)
(* WattBoxUpdateCoordinator._async_update_data                             *)
(***************************************************************************)
\* is_connected (client.py lines 731-733)
is_connected == connection # "None" /\ authenticated

\* The base class of each exception class (exceptions.py; builtins).
BaseOf ==
    [WattBoxError |-> "Exception", WattBoxConnectionError |-> "WattBoxError",
     WattBoxAuthenticationError |-> "WattBoxError", WattBoxCommandError |-> "WattBoxError",
     WattBoxTimeoutError |-> "WattBoxError", WattBoxResponseError |-> "WattBoxError",
     ValueError |-> "Exception", UpdateFailed |-> "Exception",
     Exception |-> "BaseException"]

\* isinstance(exc, cls), for an exception of class exc
RECURSIVE IsInstance(_, _)
IsInstance(exc, cls) ==
    \/ exc = cls
    \/ exc \in DOMAIN BaseOf /\ IsInstance(BaseOf[exc], cls)

\* Mutant: only connection errors are handled.
UpdateClausesConnectionOnly ==
    <<[catches |-> {"WattBoxConnectionError"}, then |-> "reconnect"]>>

\* The except clauses of the outer try, in order (lines 73, 91, 95).
UpdateClauses ==
    <<[catches |-> {"WattBoxConnectionError"}, then |-> "reconnect"],
      [catches |-> {"WattBoxError", "ValueError"}, then |-> "fail"],
      [catches |-> {"Exception"}, then |-> "fail"]>>

\* The first clause of `clauses` that catches exc, <<>> when none does.
Handler(clauses, exc) ==
    LET matching == {i \in 1..Len(clauses) :
                        \E c \in clauses[i].catches : IsInstance(exc, c)}
    IN  IF matching = {} THEN <<>>
        ELSE <<clauses[CHOOSE i \in matching : \A j \in matching : i <= j].then>>

\* The thread of the cycle, free for the next client call.
Between(t, cycle) ==
    [Idle EXCEPT !.faults = th[t].faults, !.cycle = cycle, !.data = th[t].data,
                 !.entities = th[t].entities, !.pending = th[t].pending,
                 !.connects = IF cycle \in {"try", "reconnect", "ended"}
                              THEN th[t].connects ELSE 0]

\* The executor job client.connect starts (client.py lines 118-121).
UpdateConnects(t, cycle) ==
    /\ connection' = "socket"
    /\ tcp' = "new"
    /\ handshake' = FALSE
    /\ rx' = <<>>
    /\ devQ' = <<>>
    /\ th' = [th EXCEPT ![t] = [Between(t, cycle) EXCEPT !.op = "connect",
                                                          !.pc = "cn_connect",
                                                          !.connects = @ + 1]]
    /\ UNCHANGED <<authenticated, outlet_count, device_info, command_lock>>

\* The executor job client.get_device_info(True) starts (client.py lines
\* 328-334 with refresh set).
UpdateFetches(t, cycle) ==
    /\ th' = [th EXCEPT ![t] =
                 [Between(t, cycle) EXCEPT
                     !.op = "get_device_info", !.refresh = TRUE, !.include = TRUE,
                     !.cached = device_info, !.pc = "sc_check", !.cmd = FIRMWARE,
                     !.ret = "si_firmware"]]
    /\ UNCHANGED <<client, command_lock, socket>>

\* The cycle ends: the mapping is returned or `exc` is raised to the caller.
UpdateEnds(t, outcome) ==
    /\ th' = [th EXCEPT ![t] = [Between(t, "ended") EXCEPT
                 !.update = outcome,
                 !.snapshot = IF outcome.kind = "return" THEN th[t].snapshot ELSE <<>>]]
    /\ UNCHANGED <<client, command_lock, socket>>

\* _async_update_data lines 49-59: connect when the client is not connected,
\* else fetch at once
UpdateBegin(t) ==
    /\ Begin(t)
    /\ th[t].cycle = "idle"
    /\ IF is_connected THEN UpdateFetches(t, "try") ELSE UpdateConnects(t, "try")

\* lines 53-59 and 76-79: connect has returned, get_device_info follows
UpdateConnected(t) ==
    /\ At(t, "connect", "done")
    /\ th[t].cycle \in {"try", "reconnect"}
    /\ th[t].result.kind = "return"
    /\ UpdateFetches(t, th[t].cycle)
    /\ UNCHANGED <<nops, outlet_switch>>

\* lines 60-71 and 80-88: get_device_info has returned, the mapping is built
UpdateReturns(t) ==
    /\ At(t, "get_device_info", "done")
    /\ th[t].cycle \in {"try", "reconnect"}
    /\ th[t].result.kind = "return"
    /\ UpdateEnds(t, Returns("", FALSE))
    /\ UNCHANGED <<nops, outlet_switch>>

\* lines 73-98: a client call of the outer try has raised
UpdateHandles(t) ==
    /\ th[t].pc = "done"
    /\ th[t].cycle = "try"
    /\ th[t].result.kind = "raise"
    /\ LET handler == Handler(UpdateClauses, th[t].result.exc)
       IN  IF handler = <<>> THEN UpdateEnds(t, th[t].result)
           ELSE IF handler[1] = "reconnect" THEN UpdateConnects(t, "reconnect")
           ELSE UpdateEnds(t, Raises("UpdateFailed", "Error updating WattBox data"))
    /\ UNCHANGED <<nops, outlet_switch>>

\* lines 89-90: a client call of the reconnection has raised
UpdateReconnectFails(t) ==
    /\ th[t].pc = "done"
    /\ th[t].cycle = "reconnect"
    /\ th[t].result.kind = "raise"
    /\ IF IsInstance(th[t].result.exc, "Exception")
       THEN UpdateEnds(t, Raises("UpdateFailed",
                                 "Error communicating with WattBox after reconnect"))
       ELSE UpdateEnds(t, th[t].result)
    /\ UNCHANGED <<nops, outlet_switch>>

\* The caller of the cycle has its outcome: DataUpdateCoordinator stores a
\* returned mapping as coordinator.data and keeps the old one on UpdateFailed.
UpdateDone(t) ==
    /\ th[t].cycle = "ended"
    /\ th' = [th EXCEPT ![t] = [Between(t, "idle") EXCEPT
                 !.data = IF th[t].update.kind = "return" THEN th[t].snapshot ELSE @]]
    /\ UNCHANGED <<client, command_lock, socket, nops, outlet_switch>>

\* A refresh of the coordinator starts (lines 49-59).
Refresh(t) == IF is_connected THEN UpdateFetches(t, "try") ELSE UpdateConnects(t, "try")

\* coordinator.data["outlets"], empty when there is no data
DataOutlets(t) == IF th[t].data = <<>> THEN <<>> ELSE th[t].data[1].outlets

\* switch.py async_setup_entry lines 19-38: the master switch, and one outlet
\* switch per outlet of the data of that moment
SetupSwitches(t) ==
    /\ th[t].op = "idle"
    /\ th[t].cycle = "idle"
    /\ th[t].data # <<>>
    /\ th[t].entities = <<>>
    /\ th' = [th EXCEPT ![t].entities =
                 <<{DataOutlets(t)[i].index : i \in 1..Len(DataOutlets(t))}>>]
    /\ UNCHANGED <<client, command_lock, socket, nops, outlet_switch>>

\* WattBoxOutletSwitch.is_on (switch.py lines 86-95), None as <<>>
OutletIsOn(t, outlet_index) ==
    LET outlets == DataOutlets(t)
        found == {i \in 1..Len(outlets) : outlets[i].index = outlet_index}
    IN  IF found = {} THEN <<>>
        ELSE <<outlets[CHOOSE i \in found : \A j \in found : i <= j].status>>

\* get_master_switch_state (__init__.py lines 152-161), None as <<>>
get_master_switch_state(t) ==
    LET outlets == DataOutlets(t)
    IN  IF outlets = <<>> THEN <<>>
        ELSE <<\E i \in 1..Len(outlets) : outlets[i].status>>

\* turn_on_outlet / turn_off_outlet start in the executor: set_outlet line 588
\* and get_outlet_count lines 466-470.
SetOutletStarts(t, cycle, outlet, action, pending) ==
    /\ th' = [th EXCEPT ![t] =
                 LET me == [Between(t, cycle) EXCEPT
                               !.op = "set_outlet", !.outlet = outlet, !.action = action,
                               !.delay = -1, !.pending = pending]
                 IN  IF outlet_count # <<>>
                     THEN [me EXCEPT !.pc = "so_validate", !.count = outlet_count]
                     ELSE [me EXCEPT !.pc = "sc_check", !.cmd = OUTLET_COUNT,
                                     !.ret = "goc_parse"]]
    /\ UNCHANGED <<client, command_lock, socket>>

\* An outlet switch's async_turn_on / async_turn_off (switch.py lines 131-181)
\* or the master switch's async_turn_off (lines 271-296), once out of its
\* cooldown: one set_outlet call.
SwitchOperates(t) ==
    /\ Begin(t)
    /\ th[t].cycle = "idle"
    /\ th[t].entities # <<>>
    /\ \/ \E i \in th[t].entities[1], a \in {"ON", "OFF"} :
             SetOutletStarts(t, "switch", i, a, <<>>)
       \/ SetOutletStarts(t, "switch", 0, "OFF", <<>>)

\* The set_outlet call of a switch is over: a refresh is requested when it
\* returned true, and the error is logged otherwise.
SwitchOperated(t) ==
    /\ At(t, "set_outlet", "done")
    /\ th[t].cycle = "switch"
    /\ IF th[t].result.kind = "return" /\ th[t].result.flag
       THEN Refresh(t)
       ELSE /\ th' = [th EXCEPT ![t] = Between(t, "idle")]
            /\ UNCHANGED <<client, command_lock, socket>>
    /\ UNCHANGED <<nops, outlet_switch>>

\* The master switch's async_turn_on (switch.py lines 242-269), once out of
\* its cooldown: the outlets that are off in the data are turned on one by one.
MasterTurnsOn(t) ==
    /\ Begin(t)
    /\ th[t].cycle = "idle"
    /\ th[t].entities # <<>>
    /\ DataOutlets(t) # <<>>
    /\ LET outlets == DataOutlets(t)
           off == SelectSeq([i \in 1..Len(outlets) |-> outlets[i]],
                            LAMBDA o : ~o.status)
       IN  th' = [th EXCEPT ![t].cycle = "master",
                            ![t].pending = [i \in 1..Len(off) |-> off[i].index]]
    /\ UNCHANGED <<client, command_lock, socket>>

\* lines 253-267: the next outlet that was off, or the refresh after the last
MasterNext(t) ==
    /\ th[t].op = "idle"
    /\ th[t].cycle = "master"
    /\ IF th[t].pending = <<>>
       THEN Refresh(t)
       ELSE SetOutletStarts(t, "master", Head(th[t].pending), "ON", Tail(th[t].pending))
    /\ UNCHANGED <<nops, outlet_switch>>

\* lines 256-258 and 268-269: a turn_on_outlet of the loop is over; its result
\* is not looked at, an exception ends the operation.
MasterStepped(t) ==
    /\ At(t, "set_outlet", "done")
    /\ th[t].cycle = "master"
    /\ th' = [th EXCEPT ![t] = IF th[t].result.kind = "raise"
                               THEN [Between(t, "idle") EXCEPT !.pending = <<>>]
                               ELSE Between(t, "master")]
    /\ UNCHANGED <<client, command_lock, socket, nops, outlet_switch>>

\* The client calls of a cycle, without their entry points.
FetchJobs(t) ==
    \/ ConnectTcp(t)
    \/ AuthLoginPrompt(t)
    \/ AuthSendUsername(t)
    \/ AuthPasswordPrompt(t)
    \/ AuthSendPassword(t)
    \/ AuthCheckLogin(t)
    \/ SystemInfoFirmware(t)
    \/ SystemInfoHostname(t)
    \/ SystemInfoServiceTag(t)
    \/ SystemInfoModel(t)
    \/ SystemInfoCount(t)
    \/ SystemInfoTesting(t)
    \/ AllOutletsStatus(t)
    \/ OutletStatusFirst(t)
    \/ OutletStatusRetry(t)
    \/ AllOutletsNames(t)
    \/ AllOutletsPower(t)
    \/ OutletPowerValidate(t)
    \/ OutletPowerResult(t)
    \/ DeviceInfoPower(t)
    \/ DeviceInfoUpsConnection(t)
    \/ DeviceInfoUps(t)
    \/ DeviceInfoAutoReboot(t)
    \/ DeviceInfoReturns(t)
    \/ SendCommand(t)

UpdateJobs(t) ==
    \/ FetchJobs(t)
    \/ SetOutletValidate(t)
    \/ SetOutletReturns(t)

\* The coordinator running update cycles on its client.
NextCoordinator ==
    \/ UpdateBegin("t1")
    \/ UpdateConnected("t1")
    \/ UpdateReturns("t1")
    \/ UpdateHandles("t1")
    \/ UpdateReconnectFails("t1")
    \/ UpdateDone("t1")
    \/ UpdateJobs("t1")
    \/ SetupSwitches("t1")
    \/ SwitchOperates("t1")
    \/ SwitchOperated("t1")
    \/ MasterTurnsOn("t1")
    \/ MasterNext("t1")
    \/ MasterStepped("t1")

SpecCoordinator == Init /\ [][NextCoordinator]_vars

\* The device ends an established connection between two calls: every later
\* recv returns no bytes, and a send either still goes out or fails with a
\* socket error.
DeviceCloses ==
    /\ tcp = "up"
    /\ th["t1"].op = "idle"
    /\ tcp' = "reset"
    /\ rx' = <<>>
    /\ devQ' = <<>>
    /\ UNCHANGED <<client, command_lock, handshake, th, nops, outlet_switch>>

\* _async_update_data lines 49-59, when the update interval fires on an
\* ended connection: these cycles are not counted, the interval fires for
\* as long as the entry is loaded.
UpdateAgain(t) ==
    /\ tcp = "reset"
    /\ th[t].op = "idle"
    /\ th[t].cycle = "idle"
    /\ IF is_connected THEN UpdateFetches(t, "try") ELSE UpdateConnects(t, "try")
    /\ UNCHANGED <<nops, outlet_switch>>

\* The steps _async_update_data takes itself.
CycleSteps(t) ==
    \/ UpdateBegin(t)
    \/ UpdateAgain(t)
    \/ UpdateConnected(t)
    \/ UpdateReturns(t)
    \/ UpdateHandles(t)
    \/ UpdateReconnectFails(t)
    \/ UpdateDone(t)

\* The client calls of a cycle that runs on an ended connection.
BrokenLinkJobs(t) == tcp = "reset" /\ FetchJobs(t)

\* Update cycles alone, on a connection the device may end.
NextRecovery ==
    \/ CycleSteps("t1")
    \/ FetchJobs("t1")
    \/ DeviceCloses

\* The update interval keeps firing while the integration is loaded, and on
\* an ended connection no call blocks: sendall raises or returns, recv
\* returns no bytes at once.
SpecRecovery ==
    /\ Init
    /\ [][NextRecovery]_vars
    /\ WF_vars(CycleSteps("t1"))
    /\ WF_vars(BrokenLinkJobs("t1"))

(***************************************************************************)
(* The parsers of models.py applied to lines built from fields            *)
(***************************************************************************)
\* ",".join(fields)
RECURSIVE Join(_)
Join(fields) ==
    IF Len(fields) = 0 THEN ""
    ELSE IF Len(fields) = 1 THEN fields[1]
    ELSE fields[1] \o "," \o Join(Tail(fields))

\* The line with these fields after `prefix`, as the device writes it.
LineOf(prefix, fields) == prefix \o Join(fields) \o "\n"

\* The field lists with one field less and one field more.
Resized(lists) ==
    lists \cup {SubSeq(f, 1, Len(f) - 1) : f \in lists} \cup {Append(f, "7") : f \in lists}

StatusTokens == {"0", "1", "2", "x"}

StatusFields ==
    {<<a>> : a \in StatusTokens \cup {""}}
    \cup {<<a, b>> : a \in StatusTokens, b \in StatusTokens}
    \cup {<<a, b, c>> : a \in StatusTokens, b \in StatusTokens, c \in StatusTokens}
    \cup {<<"1", "0", "1", "0", "1", "0">>}

OutletPowerFields ==
    Resized({<<a, b, c, d>> : a \in {"1", "x"}, b \in {"1.01", "w"}, c \in {"0.02"},
                              d \in {"116.50", ""}})

PowerStatusFields ==
    Resized({<<a, b, c, d>> : a \in {"5.5", "x"}, b \in {"660.0"}, c \in {"120.0", ""},
                              d \in {"1", "0", "yes"}})

UpsStatusFields ==
    Resized({<<"50", "0", "Good", a, b, c, "False">> :
                a \in {"False", "TRUE", "yes", ""}, b \in {"25", "x"}, c \in {"True", "1"}})

\* A parser is called with a line and returns or raises ValueError.
Parsed(t, op, fields, response, invalid, me) ==
    /\ Begin(t)
    /\ th' = [th EXCEPT ![t] = [me EXCEPT
                 !.op = op, !.pc = "done", !.fields = fields, !.resp = response,
                 !.result = IF invalid THEN Raises("ValueError", response)
                            ELSE Returns("", FALSE),
                 !.authAfter = authenticated]]
    /\ UNCHANGED <<client, command_lock, socket>>

\* parse_outlet_status_response (models.py lines 108-116)
ParseOutletStatus(t) ==
    \E fields \in StatusFields, prefix \in {OUTLET_STATUS \o "=", ""} :
        LET response == LineOf(prefix, fields)
        IN  Parsed(t, "parse_outlet_status_response", fields, response,
                   StatusInvalid(response),
                   [th[t] EXCEPT !.statuses = IF StatusInvalid(response) THEN <<>>
                                               ELSE parse_outlet_status_response(response)])

\* parse_outlet_power_response (models.py lines 134-156)
ParseOutletPower(t) ==
    \E fields \in OutletPowerFields, prefix \in {"?OutletPowerStatus=", ""} :
        LET response == LineOf(prefix, fields)
        IN  Parsed(t, "parse_outlet_power_response", fields, response,
                   PowerInvalid(response),
                   [th[t] EXCEPT !.power = IF PowerInvalid(response) THEN <<>>
                                           ELSE <<parse_outlet_power_response(response)>>])

\* parse_power_status_response (models.py lines 159-192)
ParsePowerStatus(t) ==
    \E fields \in PowerStatusFields, prefix \in {POWER_STATUS \o "=", "", "?OutletName="} :
        LET response == LineOf(prefix, fields)
        IN  Parsed(t, "parse_power_status_response", fields, response,
                   PowerStatusInvalid(response),
                   [th[t] EXCEPT !.power_status =
                       IF PowerStatusInvalid(response) THEN <<>>
                       ELSE <<parse_power_status_response(response)>>])

\* parse_ups_status_response (models.py lines 195-215)
ParseUpsStatus(t) ==
    \E fields \in UpsStatusFields, prefix \in {UPS_STATUS \o "=", ""} :
        LET response == LineOf(prefix, fields)
        IN  Parsed(t, "parse_ups_status_response", fields, response,
                   UpsStatusInvalid(response),
                   [th[t] EXCEPT !.ups_status =
                       IF UpsStatusInvalid(response) THEN <<>>
                       ELSE <<parse_ups_status_response(response)>>])

\* One caller of the parsers.
NextParse ==
    \/ ParseOutletStatus("t1")
    \/ ParseOutletPower("t1")
    \/ ParsePowerStatus("t1")
    \/ ParseUpsStatus("t1")
    \/ Return("t1")

SpecParse == Init /\ [][NextParse]_vars

(***************************************************************************)
(* The command channel under concurrent callers (Spec)                    *)
(***************************************************************************)
\* Thread t is between its pre-send drain and the end of its response read.
InFlight(t) == th[t].pc \in {"sc_drain", "sc_send", "sc_read", "sc_extra"}

\* C1: on one client at most one command is in flight at any time: no two
\* threads are between the pre-send drain and the end of the response read.
C1_AtMostOneInFlight ==
    \A a, b \in Threads : InFlight(a) /\ InFlight(b) => a = b

\* One caller reads its response while the other waits for the lock.
C1_Witness ==
    \E a, b \in Threads : a # b /\ th[a].pc = "sc_read" /\ th[b].pc = "sc_lock"

\* A line was handed to the caller of thread t's _send_command.
HandedLine(t) == th[t].sc.kind = "return" /\ th[t].sc.msg # ""

\* C2: with two callers on one client, no caller is handed a line the device
\* produced for the other caller's command, however late that line arrives.
C2_OwnResponseOnly ==
    \A t \in Threads : HandedLine(t) => th[t].respFor = t

\* C3: command bytes are written only on a connection that has completed the
\* login handshake, and a _send_command that fails the connected and
\* authenticated check raises the connection error having written nothing.
C3_CommandsOnlyAfterLogin ==
    \A t \in Threads :
        /\ ~th[t].bare
        /\ th[t].sc.exc = "WattBoxConnectionError" => ~th[t].wrote

\* C9: when no line arrived before the first read's deadline, _send_command
\* has raised the timeout error; it has not returned normally.
C9_TimeoutRaises ==
    \A t \in Threads :
        th[t].timedOut /\ th[t].sc.kind # "none" =>
            th[t].sc.kind = "raise" /\ th[t].sc.exc = "WattBoxTimeoutError"

\* C10: when the response selected for a command (query or control) starts
\* with #Error, _send_command raises the command error whose message holds
\* the raw response, and a line it returns never starts with #Error.
C10_ErrorLineRaises ==
    \A t \in Threads :
        /\ th[t].sel /\ StartsWith(th[t].resp, "#Error") =>
              /\ th[t].sc.kind = "raise"
              /\ th[t].sc.exc = "WattBoxCommandError"
              /\ Contains(th[t].sc.msg, th[t].resp)
        /\ th[t].sc.kind = "return" => ~StartsWith(th[t].sc.msg, "#Error")

\* A query and a control command have both ended on an #Error line.
C10_Witness ==
    \E a, b \in Threads :
        /\ th[a].sel /\ StartsWith(th[a].resp, "#Error") /\ StartsWith(th[a].cmd, "?")
        /\ th[b].sel /\ StartsWith(th[b].resp, "#Error") /\ StartsWith(th[b].cmd, "!")

(***************************************************************************)
(* The login handshake (Spec)                                              *)
(***************************************************************************)
\* Thread t's connect has ended after its authenticator began the handshake.
HandshakeEnded(t) == At(t, "connect", "done") /\ th[t].loginBuf # Unread

\* `text` was read and holds one of `markers`, in any letter case.
Seen(text, markers) ==
    text # Unread /\ LET lowered == Lower(text)
                     IN  \E m \in markers : Contains(lowered, m)

\* The authenticator read `text` without finding one of `markers`.
Missed(text, markers) == text # Unread /\ ~Seen(text, markers)

\* C4: a handshake ends in exactly one of three ways: authenticated, with the
\* flag set, when both prompts were seen and no rejection marker followed the
\* password; an authentication failure, flag clear, when a rejection marker
\* followed; a timeout, flag clear, when a prompt was not seen in time.
C4_ThreeOutcomes ==
    \A t \in Threads : HandshakeEnded(t) =>
        LET rejected == Seen(th[t].postBuf, {"login:", "username:", "invalid", "incorrect"})
            accepted == Missed(th[t].postBuf, {"login:", "username:", "invalid", "incorrect"})
            noPrompt == \/ Missed(th[t].loginBuf, {"login:", "username:", "user:"})
                        \/ Missed(th[t].passBuf, {"password:", "pass:"})
        IN  /\ th[t].authExc \in {"", "WattBoxAuthenticationError", "WattBoxTimeoutError"}
            /\ th[t].authExc = "" <=> th[t].result.kind = "return"
            /\ th[t].authExc = "" => th[t].authAfter
            /\ th[t].authExc # "" => ~th[t].authAfter
            /\ accepted <=> th[t].authExc = ""
            /\ rejected => th[t].authExc = "WattBoxAuthenticationError"
            /\ noPrompt => th[t].authExc = "WattBoxTimeoutError"
            /\ th[t].authExc = "" =>
                   /\ Seen(th[t].loginBuf, {"login:", "username:", "user:"})
                   /\ Seen(th[t].passBuf, {"password:", "pass:"})

\* A login was refused by a capitalised marker while another ended authenticated.
C4_Witness ==
    \E a, b \in Threads :
        /\ HandshakeEnded(a) /\ th[a].postBuf = "Invalid credentials\r\n"
        /\ th[a].authExc = "WattBoxAuthenticationError"
        /\ HandshakeEnded(b) /\ th[b].authExc = ""

\* C5: connect fails with the connection error when the transport cannot be
\* opened, with the authentication error when the login is refused, and with
\* the timeout error when a prompt is not seen: three different errors.
C5_ConnectErrorKinds ==
    \A t \in Threads : At(t, "connect", "done") /\ th[t].result.kind = "raise" =>
        /\ th[t].tcpFailed => th[t].result.exc = "WattBoxConnectionError"
        /\ Seen(th[t].postBuf, rejection_markers) =>
               th[t].result.exc = "WattBoxAuthenticationError"
        /\ Missed(th[t].loginBuf, login_prompts) \/ Missed(th[t].passBuf, password_prompts) =>
               th[t].result.exc = "WattBoxTimeoutError"

(***************************************************************************)
(* set_outlet (SpecFacade)                                                 *)
(***************************************************************************)
\* Thread t's set_outlet has ended with the outlet count known.
SetOutletDone(t) == At(t, "set_outlet", "done") /\ th[t].count # <<>>

\* The control commands thread t's call wrote.
ControlWrites(t) == SelectSeq(th[t].writes, LAMBDA w : StartsWith(w, "!"))

\* The control command of thread t's set_outlet got as far as the error check
\* of its response.
ControlAnswered(t) == SetOutletDone(t) /\ th[t].ret = "so_result" /\ th[t].sel

\* C6: set_outlet(i, action) with a valid index and ON, OFF or TOGGLE writes
\* no control command but !OutletSet=i,ACTION, writes it once when it
\* returns, and returns true exactly when the response is OK.
C6_OneControlCommand ==
    \A t \in Threads :
        /\ SetOutletDone(t)
        /\ th[t].outlet \in 1..th[t].count[1]
        /\ th[t].action \in {"ON", "OFF", "TOGGLE"}
        /\ th[t].delay = -1
        => LET sent == ControlWrites(t)
           IN  /\ Len(sent) <= 1
               /\ \A k \in DOMAIN sent :
                      sent[k] = "!OutletSet=" \o ToString(th[t].outlet) \o ","
                                    \o th[t].action \o "\n"
               /\ th[t].result.kind = "return" =>
                      /\ Len(sent) = 1
                      /\ th[t].result.flag <=> th[t].sc.msg = "OK"

\* set_outlet has returned true for one outlet and action.
C6_Witness ==
    \E t \in Threads :
        /\ SetOutletDone(t) /\ th[t].outlet = DeviceOutlets /\ th[t].action = "TOGGLE"
        /\ th[t].delay = -1 /\ th[t].result.kind = "return" /\ th[t].result.flag

C8_InvalidArguments ==
    \A t \in Threads : SetOutletDone(t) =>
        LET badIndex == th[t].outlet # 0 /\ th[t].outlet \notin 1..th[t].count[1]
            badAction == th[t].action \notin {"ON", "OFF", "TOGGLE", "RESET"}
        IN  /\ badIndex \/ badAction =>
                  /\ th[t].result.kind = "raise" /\ th[t].result.exc = "ValueError"
                  /\ ControlWrites(t) = <<>>
            /\ ~badIndex /\ ~badAction => th[t].result.exc # "ValueError"

\* An index just above the count was refused, the count being the device's.
C8_Witness ==
    \E t \in Threads :
        /\ SetOutletDone(t) /\ th[t].count = <<DeviceOutlets>>
        /\ th[t].outlet = DeviceOutlets + 1 /\ th[t].action = "ON"
        /\ th[t].result.exc = "ValueError"

(***************************************************************************)
(* get_system_info: the outlet count                                       *)
(***************************************************************************)
\* get_system_info has returned in thread t with a count that is not the
\* integer of the ?OutletCount response
CountFellBack(t) == th[t].source \notin {"", "response"}

\* C14: when the ?OutletCount response does not parse into a count,
\* get_system_info takes the trailing hyphen-led numeric group of the model
\* when there is one, and otherwise what the live ?OutletStatus query gives:
\* its number of tokens, or 8; it never takes 0 or a number from elsewhere.
C14_FallbackOrder ==
    \A t \in Threads :
        CountFellBack(t) =>
            IF TrailingGroup(th[t].info.model) # <<>>
            THEN th[t].count = TrailingGroup(th[t].info.model)
            ELSE /\ th[t].source \in {"status", "default"}
                 /\ th[t].source = "default" => th[t].count = <<DefaultOutletCount>>

\* The text with the characters after its last digit removed.
UpToLastDigit(text) ==
    LET digits == {i \in 1..Len(text) : IsDigit(CharAt(text, i))}
    IN  IF digits = {} THEN ""
        ELSE SubSeq(text, 1, CHOOSE i \in digits : \A j \in digits : j <= i)

StatusWrites(t) == Len(SelectSeq(th[t].writes, LAMBDA w : StartsWith(w, OUTLET_STATUS)))

\* C16: get_outlet_status sends ?OutletStatus at most twice in a call, and
\* when the last response it read is a device error line or a line that is
\* not a status response, it has returned the empty list, not raised.
C16_StatusFailureGivesEmpty ==
    \A t \in Threads :
        At(t, "get_outlet_status", "done") =>
            /\ StatusWrites(t) <= 2
            /\ th[t].sel /\ StatusInvalid(th[t].resp) =>
                   th[t].result.kind = "return" /\ th[t].statuses = <<>>

(***************************************************************************)
(* get_all_outlets_info and get_outlet_power_status                        *)
(***************************************************************************)
\* get_all_outlets_info has returned in thread t.
AllOutletsDone(t) == At(t, "get_all_outlets_info", "done") /\ th[t].result.kind = "return"

\* C17: when the names query of get_all_outlets_info fails (the command
\* raises, or its response is not a names response), the list returned has
\* one entry per outlet and entry i has index i and the name "Outlet i".
C17_DefaultNames ==
    \A t \in Threads :
        AllOutletsDone(t) /\ th[t].namesFailed =>
            /\ Len(th[t].outlets) = th[t].count[1]
            /\ \A i \in 1..th[t].count[1] :
                   /\ th[t].outlets[i].index = i
                   /\ th[t].outlets[i].name = "Outlet " \o ToString(i)

\* The names query failed on a device with several outlets.
C17_Witness ==
    /\ AllOutletsDone("t1")
    /\ th["t1"].namesFailed
    /\ th["t1"].count[1] >= 2
    /\ Len(th["t1"].outlets) >= 2

\* C18: get_outlet_power_status with a valid index returns None and does not
\* raise when the response to its ?OutletPowerStatus query is a device error
\* line or is not a power record.
C18_NoTelemetryGivesNone ==
    \A t \in Threads :
        /\ At(t, "get_outlet_power_status", "done")
        /\ StartsWith(th[t].cmd, "?OutletPowerStatus=")
        /\ th[t].sel
        /\ is_error_response(th[t].resp) \/ PowerInvalid(th[t].resp)
        => th[t].result.kind = "return" /\ th[t].power = <<>>

\* The power fields of an entry of the list.
PowerFields(o) ==
    [power_watts |-> o.power_watts, current_amps |-> o.current_amps,
     voltage_volts |-> o.voltage_volts]

Absent == [power_watts |-> <<>>, current_amps |-> <<>>, voltage_volts |-> <<>>]

\* get_all_outlets_info has asked every outlet for its power data.
PowerAsked(t) ==
    /\ AllOutletsDone(t)
    /\ th[t].include
    /\ th[t].count[1] >= 1
    /\ Len(th[t].power_data) = th[t].count[1]

C11_OutletCountMatches ==
    device_info # <<>> =>
        Len(device_info[1].outlets) = device_info[1].system_info.outlet_count

\* get_device_info is over in thread t after querying the device.
DeviceInfoDone(t) == At(t, "get_device_info", "done") /\ th[t].cmd # ""

\* C12: when the device answers the outlet and power queries as a healthy
\* device does and the UPS queries with an error line, get_device_info
\* returns a snapshot with outlets and power status, no UPS status and
\* ups_connected false; it does not raise.
C12_UpsErrorsGiveSnapshot ==
    \A t \in Threads :
        /\ DeviceInfoDone(t)
        /\ th[t].faults = 1
        /\ th[t].cmd \in {UPS_CONNECTION, UPS_STATUS}
        /\ is_error_response(th[t].resp)
        => /\ th[t].result.kind = "return"
           /\ th[t].snapshot[1].outlets # <<>>
           /\ th[t].snapshot[1].power_status # <<>>
           /\ th[t].snapshot[1].ups_status = <<>>
           /\ ~th[t].snapshot[1].ups_connected

\* The queries of the optional parts of a snapshot.
OptionalQueries == {POWER_STATUS, UPS_CONNECTION, UPS_STATUS, AUTO_REBOOT}

\* C13: get_device_info does not raise once the query of an optional part
\* (power status, UPS connection, UPS status, auto reboot) has been written,
\* whatever line, if any, answers it.
C13_OptionalPartsNeverRaise ==
    \A t \in Threads :
        DeviceInfoDone(t) /\ th[t].cmd \in OptionalQueries /\ th[t].wrote =>
            th[t].result.kind = "return"

\* C20: with a snapshot cached, get_device_info(refresh=false) returns that
\* snapshot, sends nothing and leaves the cache as it is;
\* get_device_info(refresh=true) calls _send_command again, and what it
\* returns has been collected from ?Firmware on and is the cached snapshot.
C20_CacheAndRefresh ==
    \A t \in Threads :
        At(t, "get_device_info", "done") =>
            /\ th[t].cached # <<>> /\ ~th[t].refresh =>
                   /\ th[t].result.kind = "return"
                   /\ th[t].snapshot = th[t].cached
                   /\ device_info = th[t].cached
                   /\ th[t].cmd = "" /\ th[t].writes = <<>>
            /\ th[t].refresh =>
                   /\ th[t].cmd # ""
                   /\ th[t].result.kind = "return" =>
                          /\ Len(th[t].writes) >= 1
                          /\ th[t].writes[1] = format_command(FIRMWARE)
                          /\ th[t].snapshot # <<>>
                          /\ device_info = th[t].snapshot

\* A refresh has replaced a cached snapshot by a different one.
C20_Witness ==
    /\ At("t1", "get_device_info", "done")
    /\ th["t1"].refresh
    /\ th["t1"].cached # <<>>
    /\ th["t1"].result.kind = "return"
    /\ th["t1"].snapshot # th["t1"].cached
    /\ device_info = th["t1"].snapshot

(***************************************************************************)
(* get_outlet_count                                                        *)
(***************************************************************************)
\* The calls that start with get_outlet_count.
CountCallers == {"set_outlet", "get_outlet_power_status", "get_all_outlets_info"}

\* C21: get_outlet_count caches a count only when it has determined one: a
\* ?OutletCount response that is empty or has no "=" leaves no cached count.
C21_FailedCountNotCached ==
    \A t \in Threads :
        /\ th[t].op \in CountCallers
        /\ th[t].cmd = OUTLET_COUNT
        /\ th[t].pc # "goc_parse"
        /\ th[t].sc.kind = "return"
        /\ ~Contains(th[t].sc.msg, "=")
        => outlet_count = <<>>


(***************************************************************************)
(* models.py: the parsers                                                  *)
(***************************************************************************)
\* A parser has been applied in thread t to a line with its prefix.
ParsedPrefixed(t, op, prefix) ==
    At(t, op, "done") /\ StartsWith(th[t].resp, prefix)

\* C22: parse_outlet_status_response on a line ?OutletStatus=t1,...,tn whose
\* tokens are all "0" or "1" returns n booleans in wire order, the i-th true
\* iff ti is "1"; when a token is anything else it raises.
C22_StatusTokensStrict ==
    \A t \in Threads :
        ParsedPrefixed(t, "parse_outlet_status_response", OUTLET_STATUS \o "=") =>
            LET tokens == th[t].fields
            IN  IF \A i \in 1..Len(tokens) : tokens[i] \in {"0", "1"}
                THEN /\ th[t].result.kind = "return"
                     /\ th[t].statuses = [i \in 1..Len(tokens) |-> tokens[i] = "1"]
                ELSE th[t].result.kind = "raise"

\* The number of fields each fixed-arity parser expects.
Arity ==
    [parse_outlet_power_response |-> 4, parse_power_status_response |-> 4,
     parse_ups_status_response |-> 7]

\* The calls of the fixed-arity parsers that have ended.
FixedParsed(t) == th[t].pc = "done" /\ th[t].op \in DOMAIN Arity

\* C23: parse_outlet_power_response and parse_power_status_response raise for
\* a line whose number of comma-separated fields is not 4, and
\* parse_ups_status_response for a number that is not 7; a record that is
\* returned carries the wire fields in the documented order, as for the lines
\* ?PowerStatus=5.5,660.0,120.0,1 and ?UPSStatus=50,0,Good,False,25,True,False.
C23_FieldCountAndOrder ==
    \A t \in Threads :
        FixedParsed(t) =>
            LET f == th[t].fields
                returned == th[t].result.kind = "return"
            IN  /\ Len(f) # Arity[th[t].op] =>
                    th[t].result.kind = "raise" /\ th[t].result.exc = "ValueError"
                /\ th[t].op = "parse_outlet_power_response" /\ returned =>
                    LET o == th[t].power[1]
                    IN  /\ o.index = NatOf(f[1])
                        /\ o.power_watts = <<Hundredths(f[2])>>
                        /\ o.current_amps = <<Hundredths(f[3])>>
                        /\ o.voltage_volts = <<Hundredths(f[4])>>
                /\ th[t].op = "parse_power_status_response" /\ returned =>
                    LET p == th[t].power_status[1]
                    IN  /\ p.current_amps = Hundredths(f[1])
                        /\ p.power_watts = Hundredths(f[2])
                        /\ p.voltage_volts = Hundredths(f[3])
                        /\ p.safe_voltage_status = (f[4] = "1")
                /\ th[t].op = "parse_ups_status_response" /\ returned =>
                    LET u == th[t].ups_status[1]
                    IN  /\ u.battery_charge = NatOf(f[1])
                        /\ u.battery_load = NatOf(f[2])
                        /\ u.battery_health = f[3]
                        /\ f[4] = "False" => ~u.power_lost
                        /\ u.battery_runtime = NatOf(f[5])
                        /\ f[6] = "True" => u.alarm_enabled
                        /\ f[7] = "False" => ~u.alarm_muted
                /\ th[t].resp = "?PowerStatus=5.5,660.0,120.0,1\n" =>
                    /\ returned
                    /\ th[t].power_status =
                           <<[current_amps |-> 550, power_watts |-> 66000,
                              voltage_volts |-> 12000, safe_voltage_status |-> TRUE]>>
                /\ th[t].resp = "?UPSStatus=50,0,Good,False,25,True,False\n" =>
                    /\ returned
                    /\ th[t].ups_status =
                           <<[battery_charge |-> 50, battery_load |-> 0,
                              battery_health |-> "Good", power_lost |-> FALSE,
                              battery_runtime |-> 25, alarm_enabled |-> TRUE,
                              alarm_muted |-> FALSE]>>

\* parse_power_status_response has returned the record of a four-field line.
C23_Witness ==
    /\ At("t1", "parse_power_status_response", "done")
    /\ th["t1"].resp = "?PowerStatus=5.5,660.0,120.0,1\n"
    /\ th["t1"].result.kind = "return"

\* The positions of the bool-as-text fields power_lost, alarm_enabled and
\* alarm_muted in a UPS status line.
BoolFields == {4, 6, 7}

\* C24: parse_ups_status_response raises for a seven-field line in which a
\* bool-as-text field is neither "true" nor "false", whatever the case.
C24_BadBoolRaises ==
    \A t \in Threads :
        /\ ParsedPrefixed(t, "parse_ups_status_response", UPS_STATUS \o "=")
        /\ Len(th[t].fields) = 7
        /\ \E i \in BoolFields : Lower(th[t].fields[i]) \notin {"true", "false"}
        => th[t].result.kind = "raise"

(***************************************************************************)
(* __init__.py: the update coordinator                                     *)
(***************************************************************************)
\* C25: an update cycle that has ended has returned the mapping built from the
\* snapshot get_device_info returned, or has raised UpdateFailed; no other
\* exception leaves the cycle.
C25_OnlyUpdateFailedEscapes ==
    \A t \in Threads :
        th[t].cycle = "ended" =>
            \/ th[t].update.kind = "return" /\ th[t].snapshot = device_info
                                            /\ device_info # <<>>
            \/ th[t].update.kind = "raise" /\ th[t].update.exc = "UpdateFailed"

\* A client call of the outer try has raised and the cycle has ended by
\* UpdateFailed.
C25_Witness ==
    /\ th["t1"].cycle = "ended"
    /\ th["t1"].update.kind = "raise"
    /\ th["t1"].update.msg = "Error updating WattBox data"

(***************************************************************************)
(* disconnect                                                              *)
(***************************************************************************)
\* Thread t returns from disconnect() in this step.
DisconnectReturns(t) ==
    /\ th[t].pc # "done"
    /\ th'[t].op = "disconnect"
    /\ th'[t].pc = "done"

C27_MasterIffSomeOutlet ==
    \A t \in Threads :
        th[t].entities # <<>> /\ DataOutlets(t) # <<>> =>
            (get_master_switch_state(t) = <<TRUE>>
                <=> \E i \in th[t].entities[1] : OutletIsOn(t, i) = <<TRUE>>)

(***************************************************************************)
(* _authenticate: the order of the login handshake                         *)
(***************************************************************************)
\* Thread t's connect() comes to `pc` in this step.
Reaches(t, pc) == th'[t].op = "connect" /\ th'[t].pc = pc /\ th[t].pc # pc

\* C28: in a connect() call the username is sent only after a login prompt
\* was read, the password prompt is awaited only after the username was sent,
\* the password is sent only after a password prompt was read, and the client
\* becomes authenticated only in the step that follows the sent password.
C28_HandshakeOrdered ==
    [][/\ \A t \in Threads :
            /\ Reaches(t, "au_login") => th[t].pc = "cn_connect"
            /\ Reaches(t, "au_user") =>
                  /\ th[t].pc = "au_login"
                  /\ PromptFound(th'[t].loginBuf, login_prompts)
            /\ Reaches(t, "au_password") => th[t].pc = "au_user"
            /\ Reaches(t, "au_pass") =>
                  /\ th[t].pc = "au_password"
                  /\ PromptFound(th'[t].passBuf, password_prompts)
            /\ Reaches(t, "au_check") => th[t].pc = "au_pass"
            /\ Reaches(t, "done") /\ th'[t].result.kind = "return" =>
                  th[t].pc = "au_check" /\ authenticated'
       /\ ~authenticated /\ authenticated' =>
            \E t \in Threads : At(t, "connect", "au_check") /\ th'[t].pc = "done"]_vars

\* A connect() has gone through the whole handshake and returned.
C28_Witness ==
    \E t \in Threads :
        /\ At(t, "connect", "done")
        /\ th[t].result.kind = "return"
        /\ PromptFound(th[t].loginBuf, login_prompts)
        /\ PromptFound(th[t].passBuf, password_prompts)
        /\ authenticated

(***************************************************************************)
(* _send_command: the reads of one command                                 *)
(***************************************************************************)
\* Thread t's _send_command has chosen its response.
Chosen(t) == th[t].sel /\ th[t].reads > 0

\* Thread t's _send_command is about to read one more line.
ReadsOn(t) == th[t].pc = "sc_extra"

\* The command thread t sent is a query.
Asks(t) == StartsWith(th[t].cmd, "?")

\* The line carries the prefix of the query thread t sent.
Prefixed(t, line) == StartsWith(line, expected_prefix(format_command(th[t].cmd)))

C30_LastLineReturned ==
    \A t \in Threads :
        /\ Chosen(t)
        /\ Asks(t)
        /\ th[t].reads > 1
        /\ ~Prefixed(t, th[t].last)
        /\ th[t].sc.kind = "return"
        => th[t].sc.msg = th[t].last

\* C31: an update cycle invokes connect() at most once before it ends.
C31_OneConnectPerCycle == \A t \in Threads : th[t].connects <= 1

(***************************************************************************)
(* _clear_input_buffer, one recv at a time                                 *)
(***************************************************************************)
\* recv(1024) of line 860, and the ceiling of line 865
ChunkMax == 1024
DrainLimit == 4096

\* Sizes of the chunks a recv(1024) returns from a peer that keeps sending.
ChunkSizes == {1, 1000, ChunkMax}

\* _clear_input_buffer lines 849-850
ClearBegin(t) ==
    /\ Begin(t)
    /\ th' = IF connection = "None"
             THEN [Finish(t, Returns("", FALSE), authenticated) EXCEPT ![t].op = "clear"]
             ELSE [th EXCEPT ![t].op = "clear", ![t].pc = "cb_setup"]
    /\ UNCHANGED <<client, command_lock, socket>>

\* lines 854-855: gettimeout and settimeout; what they raise is caught by the
\* clause of line 880
ClearSetup(t) ==
    /\ At(t, "clear", "cb_setup")
    /\ \/ th' = [th EXCEPT ![t].pc = "cb_recv"]
       \/ th' = Finish(t, Returns("", FALSE), authenticated)
    /\ UNCHANGED <<client, command_lock, socket, nops, outlet_switch>>

\* lines 860-866: recv returned bytes
ClearRecv(t) ==
    /\ At(t, "clear", "cb_recv")
    /\ \E n \in ChunkSizes :
         th' = [th EXCEPT ![t].drained = @ + n,
                          ![t].pc = IF th[t].drained + n > DrainLimit
                                    THEN "cb_restore" ELSE "cb_recv"]
    /\ UNCHANGED <<client, command_lock, socket, nops, outlet_switch>>

\* Mutant: a socket error of recv leaves _clear_input_buffer.
ClearRecvErrorEscapes(t) ==
    /\ At(t, "clear", "cb_recv")
    /\ \E o \in {"eof", "timeout", "error"} :
         th' = IF o = "error"
               THEN Finish(t, Raises("OSError", o), authenticated)
               ELSE [th EXCEPT ![t].pc = "cb_restore"]
    /\ UNCHANGED <<client, command_lock, socket, nops, outlet_switch>>

\* lines 861-862 and 867-871: recv returned b"", timed out or raised
ClearRecvEnds(t) ==
    /\ At(t, "clear", "cb_recv")
    /\ \E o \in {"eof", "timeout", "error"} :
         th' = [th EXCEPT ![t].pc = "cb_restore"]
    /\ UNCHANGED <<client, command_lock, socket, nops, outlet_switch>>

\* lines 873-881: the timeout is restored; a settimeout that raises is caught
\* by the clause of line 880
ClearRestore(t) ==
    /\ At(t, "clear", "cb_restore")
    /\ th' = Finish(t, Returns("", FALSE), authenticated)
    /\ rx' = <<>>
    /\ UNCHANGED <<client, command_lock, tcp, handshake, devQ, nops, outlet_switch>>

ClearSteps(t) ==
    \/ ClearSetup(t)
    \/ ClearRecv(t)
    \/ ClearRecvEnds(t)
    \/ ClearRestore(t)

\* Drains of the input buffer, with and without a connection.
NextDrain ==
    \/ Connecting("t1")
    \/ ClearBegin("t1")
    \/ ClearSteps("t1")
    \/ Return("t1")

\* Each recv returns within the 0.01 s timeout set at line 855.
SpecDrain == Init /\ [][NextDrain]_vars /\ WF_vars(ClearSteps("t1"))

(***************************************************************************)
(* config_flow.py: validate_input                                          *)
(***************************************************************************)
\* validate_input lines 55-66: a WattBoxClient is constructed (client.py
\* 79-101: ValueError for a malformed host or port, else no connection, not
\* authenticated, nothing cached) and get_system_info is called on it.
ValidateBegin(t) ==
    /\ Begin(t)
    /\ \E well_formed \in BOOLEAN :
         IF well_formed
         THEN /\ connection' = "None"
              /\ authenticated' = FALSE
              /\ outlet_count' = <<>>
              /\ device_info' = <<>>
              /\ command_lock' = "free"
              /\ tcp' = "none"
              /\ handshake' = FALSE
              /\ rx' = <<>>
              /\ devQ' = <<>>
              /\ th' = [th EXCEPT ![t] = [Call(t, FIRMWARE, "si_firmware") EXCEPT
                                             !.op = "get_system_info",
                                             !.cycle = "validate"]]
         ELSE /\ th' = [Finish(t, Raises("ValueError", "Invalid IP address"), authenticated)
                           EXCEPT ![t].op = "validate_input", ![t].cycle = "validate"]
              /\ UNCHANGED <<client, command_lock, socket>>

\* validate_input lines 68-90: the description is returned, or the exception
\* of get_system_info becomes CannotConnect or InvalidAuth; the ValueError of
\* the constructor, raised before the try, leaves as it is.
ValidateReturns(t) ==
    /\ th[t].pc = "done"
    /\ th[t].cycle = "validate"
    /\ LET result == th[t].result
           outcome == IF th[t].op = "validate_input" THEN result
                      ELSE IF result.kind = "return"
                      THEN Returns("WattBox " \o th[t].info.model, FALSE)
                      ELSE IF result.exc = "WattBoxAuthenticationError"
                      THEN Raises("InvalidAuth", result.msg)
                      ELSE Raises("CannotConnect", result.msg)
       IN  th' = [th EXCEPT ![t] = [Idle EXCEPT !.cycle = "validated",
                                                !.update = outcome,
                                                !.info = th[t].info,
                                                !.count = th[t].count,
                                                !.faults = th[t].faults]]
    /\ UNCHANGED <<client, command_lock, socket, nops, outlet_switch>>

\* A caller that validates configurations, and connects a client and reads
\* its system information.
NextConfigFlow ==
    \/ ValidateBegin("t1")
    \/ ValidateReturns("t1")
    \/ Connecting("t1")
    \/ SystemInfo("t1")
    \/ SendCommand("t1")
    \/ Return("t1")

SpecConfigFlow == Init /\ [][NextConfigFlow]_vars

(***************************************************************************)
(* _send_command under fair scheduling                                     *)
(***************************************************************************)
\* The statements of _send_command inside the with block: each of them
\* returns or raises, the reads at their deadline at the latest.
Locked(t) ==
    \/ SendDrain(t)
    \/ SendWrite(t)
    \/ SendRead(t)
    \/ SendReadMore(t)

\* Thread t is inside the with block of _send_command.
InWith(t) == th[t].pc \in {"sc_drain", "sc_send", "sc_read", "sc_extra"}

\* get_firmware_version (line 759) or disconnect is called; the connect()
\* that made the session is one of the MaxOps calls.
FairBegin(t) ==
    /\ nops < MaxOps - 1
    /\ \/ CommandBegin(t) /\ th'[t].cmd = FIRMWARE
       \/ DisconnectBegin(t)

\* Concurrent queries and disconnects on a client that is connected.
NextFair ==
    \/ \E t \in Threads : FairBegin(t) \/ CommandReturns(t) \/ DisconnectClose(t)
    \/ \E t \in Threads : Channel(t)
    \/ DeviceRespond

\* A thread that can run does run, and a thread waiting for the lock gets it
\* if the lock is free again and again. The last conjunct is
\* WF_vars(Locked(t)) written out: Locked(t) is enabled exactly when t is
\* inside the with block, and th[t] changes there by steps of Locked(t) only.
SpecFair ==
    /\ InitSession
    /\ [][NextFair]_vars
    /\ \A t \in Threads :
          /\ WF_vars(SendCheck(t))
          /\ SF_vars(SendAcquire(t))
          /\ ([]<>(~InWith(t)) \/ []<><<th'[t] # th[t]>>_vars)

(***************************************************************************)
(* switch.py: the cooldown of one outlet switch                            *)
(***************************************************************************)
\* self._cooldown_period (line 72), in seconds
CooldownPeriod == 5

\* Seconds the clock may advance in one behaviour.
MaxTicks == 6

\* _is_in_cooldown lines 97-100
is_in_cooldown ==
    outlet_switch.time - outlet_switch.last_operation_time < CooldownPeriod

\* async_turn_on lines 134-144 and async_turn_off lines 163-173 of the switch
\* of outlet 1, called as a service by task t: ServiceValidationError in
\* cooldown, else the executor job turn_on_outlet / turn_off_outlet starts.
TurnBegin(t) ==
    /\ Begin(t)
    /\ th[t].cycle = "idle"
    /\ IF is_in_cooldown
       THEN /\ th' = [th EXCEPT ![t] = [Between(t, "idle") EXCEPT
                         !.update = Raises("ServiceValidationError", "cooldown")]]
            /\ UNCHANGED <<client, command_lock, socket>>
       ELSE \E a \in {"ON", "OFF"} : SetOutletStarts(t, "turn", 1, a, <<>>)

\* lines 145-157 and 174-186: the executor job is over; after a success
\* _last_operation_time is set (the refresh requested after the 2 s sleep is
\* the coordinator's); a failure or an exception is logged.
TurnEnds(t) ==
    /\ At(t, "set_outlet", "done")
    /\ th[t].cycle = "turn"
    /\ th' = [th EXCEPT ![t] = [Between(t, "idle") EXCEPT !.update = th[t].result]]
    /\ outlet_switch' =
          IF th[t].result.kind = "return" /\ th[t].result.flag
          THEN [outlet_switch EXCEPT !.last_operation_time = outlet_switch.time]
          ELSE outlet_switch
    /\ UNCHANGED <<client, command_lock, socket, nops>>

\* A second passes.
Tick ==
    /\ outlet_switch.time < StartTime + MaxTicks
    /\ outlet_switch' = [outlet_switch EXCEPT !.time = @ + 1]
    /\ UNCHANGED <<client, command_lock, socket, th, nops>>

\* The client once the entry is set up: connected, and the outlet count
\* cached by the get_system_info of the first refresh.
InitSwitch ==
    /\ connection = "socket"
    /\ authenticated = TRUE
    /\ command_lock = "free"
    /\ outlet_count = <<DeviceOutlets>>
    /\ device_info = <<>>
    /\ tcp = "up"
    /\ handshake = TRUE
    /\ rx = <<>>
    /\ devQ = <<>>
    /\ th = [t \in Threads |-> Idle]
    /\ nops = 0
    /\ outlet_switch = NewSwitch

\* Service calls on one outlet switch, as concurrent tasks of the event loop
\* whose executor jobs use the client.
NextCooldown ==
    \/ \E t \in Threads :
          \/ TurnBegin(t)
          \/ SetOutletValidate(t)
          \/ SendCommand(t)
          \/ SetOutletReturns(t)
          \/ TurnEnds(t)
    \/ Tick

SpecCooldown == InitSwitch /\ [][NextCooldown]_vars

\* C32: once the device has ended an established connection, a later update
\* cycle invokes connect() again (a new socket is created).
C32_BrokenLinkReconnects ==
    (tcp = "reset" /\ th["t1"].op = "idle") ~> (tcp = "new")

\* C33: _clear_input_buffer never raises, discards at most DrainLimit +
\* ChunkMax bytes, and every call of it ends.
C33_DrainBoundedTotal ==
    /\ [](\A t \in Threads :
            th[t].op = "clear" =>
                /\ th[t].drained <= DrainLimit + ChunkMax
                /\ th[t].pc = "done" => th[t].result.kind = "return")
    /\ \A t \in Threads : (th[t].op = "clear") ~> (th[t].pc = "done")

\* A drain stopped by the ceiling, against a peer that kept sending.
C33_Witness ==
    /\ At("t1", "clear", "done")
    /\ th["t1"].drained > DrainLimit
    /\ th["t1"].result.kind = "return"

\* C34: validate_input holds an authenticated session whenever it sends a
\* system-info query, and a validate_input that ended by CannotConnect had
\* tried to reach the device.
C34_ValidateOnSession ==
    \A t \in Threads :
        /\ (th[t].cycle = "validate" /\ th[t].pc = "sc_check") => is_connected
        /\ (th[t].op = "idle" /\ th[t].cycle = "validated"
              /\ th[t].update.exc = "CannotConnect") => tcp # "none"

(***************************************************************************)
(* connect, disconnect: the two session fields                             *)
(***************************************************************************)
\* Thread t leaves connect() by an exception in this step.
ConnectRaises(t) ==
    /\ th[t].pc # "done"
    /\ th'[t].op = "connect"
    /\ th'[t].pc = "done"
    /\ th'[t].result.kind = "raise"

C36_FailedRefreshKeepsCache ==
    \A t \in Threads :
        /\ (At(t, "get_device_info", "done") /\ th[t].refresh
              /\ th[t].result.kind = "raise") => device_info = th[t].cached
        /\ (At(t, "get_device_info", "done") /\ ~th[t].refresh
              /\ th[t].kept # <<>>) =>
                /\ th[t].result.kind = "return"
                /\ th[t].snapshot = th[t].kept

\* The call after a failed refresh has returned the snapshot cached before.
C36_Witness ==
    /\ At("t1", "get_device_info", "done")
    /\ ~th["t1"].refresh
    /\ th["t1"].kept # <<>>
    /\ th["t1"].snapshot = th["t1"].kept

(***************************************************************************)
(* _send_command: termination and the command lock                         *)
(***************************************************************************)
\* Thread t is inside _send_command.
Sending(t) == th[t].pc \in {"sc_check", "sc_lock", "sc_drain", "sc_send", "sc_read", "sc_extra"}

\* C37: the command lock is held only by a thread inside the with block of
\* _send_command, every _send_command call ends, and every thread waiting
\* for the lock gets it.
C37_CommandsEndLockFreed ==
    /\ [](\A t \in Threads : command_lock = t <=> InWith(t))
    /\ \A t \in Threads : Sending(t) ~> ~Sending(t)
    /\ \A t \in Threads : (th[t].pc = "sc_lock") ~> (command_lock = t)

\* One thread waits for the lock another thread holds.
C37_Witness ==
    \E t, u \in Threads :
        /\ th[t].pc = "sc_lock"
        /\ command_lock = u
        /\ u # t

\* C38: disconnect() closes the socket and clears the connection only while
\* no other thread is between the drain and the end of the response read of
\* a command.
C38_NoTeardownDuringCommand ==
    [][\A t, u \in Threads :
          (u # t /\ At(u, "disconnect", "dc_close") /\ th'[u].pc = "done")
              => ~InWith(t)]_vars

(***************************************************************************)
(* switch.py: cooldown                                                     *)
(***************************************************************************)
\* Task t's executor job writes its outlet command in this step.
OutletCommandSent(t) ==
    /\ th[t].op = "set_outlet"
    /\ th[t].cycle = "turn"
    /\ th[t].pc = "sc_check"
    /\ StartsWith(th[t].cmd, "!OutletSet")
    /\ th'[t].wrote

\* C39: the switch sends no outlet command while it is in the cooldown that
\* follows a successful turn_on or turn_off.
C39_NoCommandInCooldown ==
    [][\A t \in Threads : OutletCommandSent(t) => ~is_in_cooldown]_vars

====
